---- MODULE Spec2Model ----
(***************************************************************************)
(* Model of the radio-station library server:                              *)
(*   - favoriteService.ts     (user_favorites table)                       *)
(*   - stationListService.ts  (user_station_lists / station_list_items)    *)
(*   - radioBrowserService.ts (Redis-cached search of the Radio-Browser    *)
(*                             directory)                                  *)
(* Every db.query / redis command / HTTP request is one atomic step of the *)
(* session (the async function invocation) that issues it; sessions        *)
(* interleave between their awaits.                                        *)
(***************************************************************************)
EXTENDS Integers, Sequences, FiniteSets, TLC

\* ------------------------------------------------------------------ bounds
\* Total number of service calls started in one behaviour.
MaxCalls == 2
\* Number of list_id values the SERIAL sequence may hand out.
MaxLists == 2

\* ------------------------------------------------------------ value spaces
\* Rows of the users table the verifier can yield (users are supplied
\* externally; every userId below refers to an existing user).
Users == {"u1", "u2"}
\* Non-empty station UUIDs.
Stations == {"s1", "s2"}
\* What a caller may pass as stationId: "" stands for empty / missing.
StationArgs == Stations \cup {""}
\* Concurrent request handlers.
Sessions == {"c1", "c2"}
\* list_id values (SERIAL starts at 1); callers may pass any of them.
ListIds == 1..MaxLists
\* List names are strings, modelled as sequences of characters.
NameArgs == {<<" ">>, <<"a">>, <<" ", "b", " ">>}

VARIABLES
    user_favorites,      \* bag of (user_id, stationuuid) rows
    user_station_lists,  \* set of rows [list_id, user_id, list_name, created_at]
    station_list_items,  \* bag of (list_id, stationuuid) rows
    list_id_seq,         \* last value handed out by the list_id SERIAL
    now,                 \* NOW() of the relational store
    sess,                \* per session: the running call and its locals
    calls,               \* number of calls started so far
    hist                 \* history (ghost) counters; never read by the code

libVars == <<user_favorites, user_station_lists, station_list_items,
             list_id_seq, now, sess, calls, hist>>

VARIABLES
    redisStatus,         \* redisClient.status
    redisData,           \* the keys of the Redis server: value and expiry
    clock,               \* wall-clock time, in seconds
    search,              \* per session: the running getStations call
    searches,            \* number of getStations calls started so far
    shist                \* history (ghost) of completed searches, per cache key

cacheVars == <<redisStatus, redisData, clock, search, searches, shist>>

VARIABLES
    users,               \* the in-memory user store (userModel.ts): array of users
    reg                  \* per register request handler: its position and locals

authVars == <<users, reg>>

vars == <<libVars, cacheVars, authVars>>

\* ------------------------------------------------------------ result values
NoResult == [kind |-> "none"]
\* null
Null == [kind |-> "null"]
\* a thrown Error; type is a ghost tag (validation / store), message is the text
Err(type, message) == [kind |-> "error", type |-> type, message |-> message]
\* string[] of station UUIDs, as a bag (the order of rows is unspecified)
Uuids(bag) == [kind |-> "uuids", stationIds |-> bag]
\* { updatedFavorites, success }
FavRemoval(bag, success) ==
    [kind |-> "favRemoval", updatedFavorites |-> bag, success |-> success]
\* StationList { id, name, createdAt, stationIds }
StationList(id, name, createdAt, bag) ==
    [kind |-> "list", id |-> id, name |-> name, createdAt |-> createdAt,
     stationIds |-> bag]
\* StationList[]
Lists(seq) == [kind |-> "lists", lists |-> seq]
\* boolean
Bool(b) == [kind |-> "bool", value |-> b]
\* { list, removed }
ListRemoval(list, removed) ==
    [kind |-> "listRemoval", list |-> list, removed |-> removed]

IsStoreError(r) == r.kind = "error" /\ r.type = "store"
IsValidationError(r) == r.kind = "error" /\ r.type = "validation"

\* ------------------------------------------------------- relational store
\* user_favorites has UNIQUE(user_id, stationuuid).
EmptyFavorites == [k \in Users \X Stations |-> 0]

\* INSERT INTO user_favorites ... ON CONFLICT (user_id, stationuuid) DO NOTHING
\* A plausible slip: the table created without its UNIQUE constraint, so the
\* ON CONFLICT clause never fires and the row is inserted again.
InsertFavoriteNoUnique(tbl, u, s) ==
    [error |-> FALSE, table |-> [tbl EXCEPT ![<<u, s>>] = @ + 1]]

\* A plausible slip: a plain INSERT, which raises unique_violation on conflict.
InsertFavoriteNoOnConflict(tbl, u, s) ==
    IF tbl[<<u, s>>] > 0
    THEN [error |-> TRUE, table |-> tbl]
    ELSE [error |-> FALSE, table |-> [tbl EXCEPT ![<<u, s>>] = 1]]

InsertFavorite(tbl, u, s) ==
    IF tbl[<<u, s>>] > 0
    THEN [error |-> FALSE, table |-> tbl]
    ELSE [error |-> FALSE, table |-> [tbl EXCEPT ![<<u, s>>] = 1]]

\* DELETE FROM user_favorites WHERE user_id = $1 AND stationuuid = $2 RETURNING ..
\* A plausible slip: the parameters passed as [stationId, userId], so that no
\* row matches.
DeleteFavoriteSwappedParameters(tbl, u, s) == [rowCount |-> 0, table |-> tbl]

\* A plausible slip: the rowCount of the DELETE is not what decides success.
DeleteFavoriteAlwaysOne(tbl, u, s) ==
    [rowCount |-> 1, table |-> [tbl EXCEPT ![<<u, s>>] = 0]]

\* A plausible slip: the stationuuid condition left out of the WHERE clause.
DeleteFavoriteAllOfUser(tbl, u, s) ==
    [rowCount |-> Cardinality({st \in Stations : tbl[<<u, st>>] > 0}),
     table |-> [k \in DOMAIN tbl |-> IF k[1] = u THEN 0 ELSE tbl[k]]]

DeleteFavorite(tbl, u, s) ==
    [rowCount |-> tbl[<<u, s>>], table |-> [tbl EXCEPT ![<<u, s>>] = 0]]

\* SELECT stationuuid FROM user_favorites WHERE user_id = $1
SelectFavorites(tbl, u) == [s \in Stations |-> tbl[<<u, s>>]]

\* ---------------------------------------- relational store: station lists
\* String.prototype.trim on a list name.
RECURSIVE TrimLeft(_)
TrimLeft(n) ==
    IF n # << >> /\ Head(n) = " " THEN TrimLeft(Tail(n)) ELSE n

RECURSIVE TrimRight(_)
TrimRight(n) ==
    IF n # << >> /\ n[Len(n)] = " " THEN TrimRight(SubSeq(n, 1, Len(n) - 1)) ELSE n

\* A plausible slip: trimStart() in place of trim().
TrimStart(n) == TrimLeft(n)

Trim(n) == TrimRight(TrimLeft(n))

EmptyItems == [k \in ListIds \X Stations |-> 0]

\* SELECT ... FROM user_station_lists WHERE list_id = $1 AND user_id = $2
\* A plausible slip: the ownership condition left out of the WHERE clause.
SelectListAnyOwner(lists, l, u) == {r \in lists : r.list_id = l}

SelectListOwned(lists, l, u) ==
    {r \in lists : r.list_id = l /\ r.user_id = u}

\* INSERT INTO user_station_lists (user_id, list_name) VALUES ($1, $2) RETURNING ..
\* list_id is SERIAL, created_at defaults to NOW().
InsertList(lists, seq, u, name, t) ==
    LET row == [list_id |-> seq + 1, user_id |-> u, list_name |-> name,
                created_at |-> t] IN
    [rows |-> {row}, table |-> lists \cup {row}]

\* UPDATE user_station_lists SET list_name = $1 WHERE list_id = $2 AND user_id = $3
\* RETURNING list_id, list_name, created_at
\* A plausible slip: the list_id condition left out of the WHERE clause.
UpdateListNameAllOfUser(lists, name, l, u) ==
    LET hit == {r \in lists : r.user_id = u}
        new == {[r EXCEPT !.list_name = name] : r \in hit} IN
    [rows |-> {r \in new : r.list_id = l},
     rowCount |-> Cardinality({r \in hit : r.list_id = l}),
     table |-> (lists \ hit) \cup new]

UpdateListName(lists, name, l, u) ==
    LET hit == SelectListOwned(lists, l, u)
        new == {[r EXCEPT !.list_name = name] : r \in hit} IN
    [rows |-> new, rowCount |-> Cardinality(hit),
     table |-> (lists \ hit) \cup new]

\* The ways of putting a set of rows in a row.
Orderings(rows) ==
    {q \in [1..Cardinality(rows) -> rows] :
        \A i, j \in 1..Cardinality(rows) : i # j => q[i] # q[j]}

\* SELECT list_id, list_name, created_at FROM user_station_lists
\* WHERE user_id = $1 ORDER BY created_at DESC
\* The answers the store may give: rows of equal created_at come in any order.
\* A plausible slip: ORDER BY created_at, which sorts ascending.
SelectListsOfUserAscending(lists, u) ==
    {q \in Orderings({r \in lists : r.user_id = u}) :
        \A i \in 1..(Len(q) - 1) : q[i].created_at <= q[i + 1].created_at}

\* A plausible slip: the user_id condition left out of the WHERE clause.
SelectListsOfAnyUser(lists, u) ==
    {q \in Orderings(lists) :
        \A i \in 1..(Len(q) - 1) : q[i].created_at >= q[i + 1].created_at}

SelectListsOfUser(lists, u) ==
    {q \in Orderings({r \in lists : r.user_id = u}) :
        \A i \in 1..(Len(q) - 1) : q[i].created_at >= q[i + 1].created_at}

\* DELETE FROM user_station_lists WHERE list_id = $1 AND user_id = $2
\* station_list_items.list_id REFERENCES user_station_lists ON DELETE CASCADE.
\* A plausible slip: the reference declared without ON DELETE CASCADE handling,
\* so the member rows stay behind.
DeleteListNoCascade(lists, items, l, u) ==
    LET hit == SelectListOwned(lists, l, u) IN
    [rowCount |-> Cardinality(hit), lists |-> lists \ hit, items |-> items]

\* A plausible slip: the DELETE scoped by list_id only.
DeleteListAnyOwner(lists, items, l, u) ==
    LET hit == {r \in lists : r.list_id = l} IN
    [rowCount |-> Cardinality(hit),
     lists |-> lists \ hit,
     items |-> [k \in DOMAIN items |->
                   IF \E r \in hit : r.list_id = k[1] THEN 0 ELSE items[k]]]

DeleteList(lists, items, l, u) ==
    LET hit == SelectListOwned(lists, l, u) IN
    [rowCount |-> Cardinality(hit),
     lists |-> lists \ hit,
     items |-> [k \in DOMAIN items |->
                   IF \E r \in hit : r.list_id = k[1] THEN 0 ELSE items[k]]]

\* INSERT INTO station_list_items (list_id, stationuuid) VALUES ($1, $2)
\* ON CONFLICT (list_id, stationuuid) DO NOTHING
\* The foreign key on list_id rejects a row whose list does not exist.
\* A plausible slip: list_id declared without its REFERENCES clause.
InsertItemNoForeignKey(lists, items, l, s) ==
    IF items[<<l, s>>] > 0
    THEN [error |-> FALSE, table |-> items]
    ELSE [error |-> FALSE, table |-> [items EXCEPT ![<<l, s>>] = 1]]

\* A plausible slip: a plain INSERT, which raises unique_violation on conflict.
InsertItemNoOnConflict(lists, items, l, s) ==
    IF ~\E r \in lists : r.list_id = l
    THEN [error |-> TRUE, table |-> items]
    ELSE IF items[<<l, s>>] > 0
    THEN [error |-> TRUE, table |-> items]
    ELSE [error |-> FALSE, table |-> [items EXCEPT ![<<l, s>>] = 1]]

\* A plausible slip: the table created without UNIQUE(list_id, stationuuid), so
\* ON CONFLICT never fires.
InsertItemNoUnique(lists, items, l, s) ==
    IF ~\E r \in lists : r.list_id = l
    THEN [error |-> TRUE, table |-> items]
    ELSE [error |-> FALSE, table |-> [items EXCEPT ![<<l, s>>] = @ + 1]]

InsertItem(lists, items, l, s) ==
    IF ~\E r \in lists : r.list_id = l
    THEN [error |-> TRUE, table |-> items]
    ELSE IF items[<<l, s>>] > 0
    THEN [error |-> FALSE, table |-> items]
    ELSE [error |-> FALSE, table |-> [items EXCEPT ![<<l, s>>] = 1]]

\* DELETE FROM station_list_items WHERE list_id = $1 AND stationuuid = $2
DeleteItem(items, l, s) ==
    [rowCount |-> items[<<l, s>>], table |-> [items EXCEPT ![<<l, s>>] = 0]]

\* SELECT stationuuid FROM station_list_items WHERE list_id = $1
\* A plausible slip: the WHERE clause left out, so the rows of every list come.
SelectItemsAnyList(items, l) ==
    [s \in Stations |-> Cardinality({l2 \in ListIds : items[<<l2, s>>] > 0})]

SelectItems(items, l) == [s \in Stations |-> items[<<l, s>>]]

NoStations == [s \in Stations |-> 0]

\* The StationList object built from a list row and its member UUIDs.
Resolved(row, uuids) ==
    StationList(row.list_id, row.list_name, row.created_at, uuids)

\* ---------------------------------------------------------------- sessions
\* pre and prev are history: the tables as the call found them, and the call
\* the same handler served before this one.
\* views, torn and consistent are history of a getStationListDetails or
\* getUserStationLists call: the lists of its user as the store has held them
\* since the call started, whether a list was written between the call's read
\* of its row and its read of its members, and whether every list the call
\* returned is among the views.
ReadOps == {"getStationListDetails", "getUserStationLists"}

\* The member rows of list l, as the table holds them.
Members(items, l) == [s \in Stations |-> items[<<l, s>>]]

\* The lists of user u, each with its members, as the tables hold them.
Views(u, lists, items) ==
    {Resolved(r, Members(items, r.list_id)) : r \in {x \in lists : x.user_id = u}}

\* The StationList objects in a returned value.
ListsIn(r) ==
    IF r.kind = "list" THEN {r}
    ELSE IF r.kind = "lists" THEN {r.lists[i] : i \in 1..Len(r.lists)}
    ELSE {}

NoCall == [op |-> "none", userId |-> "u1", listId |-> 1, stationId |-> "",
           kind |-> "none"]

\* request is the HTTP request the handler serves, when the call came through a
\* router: the router, the bearer token, the user id the handler settled on.
\* response is what the handler has sent back, once it has.
NoRequest == [router |-> "none", token |-> "none", userId |-> "", pending |-> FALSE,
              response |-> NoResult]

IdleSession ==
    [pc |-> "idle", op |-> "none", userId |-> "u1", listId |-> 1,
     stationId |-> "", name |-> << >>, rowCount |-> 0, row |-> Null,
     rows |-> << >>, uuids |-> << >>,
     result |-> NoResult, outage |-> FALSE, foreign |-> FALSE, late |-> FALSE,
     raced |-> FALSE, crossed |-> FALSE, failedAt |-> "",
     views |-> {}, torn |-> FALSE, consistent |-> TRUE,
     pre |-> [favorites |-> EmptyFavorites, lists |-> {}, items |-> EmptyItems],
     prev |-> NoCall, request |-> NoRequest]

\* A session can start a call when it runs none.
Free(c) == sess[c].pc \in {"idle", "done"} /\ calls < MaxCalls

Start(c, op, u, pc) ==
    [IdleSession EXCEPT
        !.pc = pc, !.op = op, !.userId = u,
        !.pre = [favorites |-> user_favorites, lists |-> user_station_lists,
                 items |-> station_list_items],
        !.prev = [op |-> sess[c].op, userId |-> sess[c].userId,
                  listId |-> sess[c].listId, stationId |-> sess[c].stationId,
                  kind |-> sess[c].result.kind],
        !.request = [sess[c].request EXCEPT !.pending = FALSE]]

\* The call returns or throws: its locals go out of scope.
Finish(s, r) ==
    [s EXCEPT !.pc = "done", !.result = r, !.rowCount = 0, !.row = Null,
              !.rows = << >>, !.uuids = << >>, !.views = {},
              !.consistent = (s.op \in ReadOps => ListsIn(r) \subseteq s.views)]

\* A query that hits a store outage (connection loss) rejects.
\* (failedAt is history: the step whose query was rejected)
Outage(s, message) ==
    [Finish(s, Err("store", message)) EXCEPT !.outage = TRUE, !.failedAt = s.pc]

EmptyHist ==
    [favDeleted |-> [k \in Users \X Stations |-> 0],
     favRemovedTrue |-> [k \in Users \X Stations |-> 0],
     favLost |-> [k \in Users \X Stations |-> 0],
     favLast |-> [k \in Users \X Stations |-> "none"],
     itemDeleted |-> [k \in ListIds \X Stations |-> 0],
     itemRemovedTrue |-> [k \in ListIds \X Stations |-> 0],
     itemLost |-> [k \in ListIds \X Stations |-> 0],
     listDeleted |-> {}, cascaded |-> FALSE]

listStore == <<user_station_lists, station_list_items, list_id_seq, now>>

\* The call of s has read the row of list l and not yet its members.
HalfRead(s, l) ==
    \/ /\ s.op = "getStationListDetails" /\ s.pc = "detItems"
       /\ s.row.list_id = l
    \/ /\ s.op = "getUserStationLists" /\ s.pc = "allItems"
       /\ \E i \in 1..Len(s.rows) : s.rows[i].list_id = l /\ s.uuids[i] = Null

\* History kept for the running reads when a statement on list l leaves the
\* tables as lists2 and items2 (ss: the sessions after the statement).
Observed(ss, lists2, items2, l) ==
    [d \in Sessions |->
        IF /\ ss[d].op \in ReadOps /\ ss[d].pc \notin {"idle", "done"}
           /\ (lists2 # user_station_lists \/ items2 # station_list_items)
        THEN [ss[d] EXCEPT !.views = @ \cup Views(ss[d].userId, lists2, items2),
                           !.torn = @ \/ HalfRead(ss[d], l)]
        ELSE ss[d]]

\* ---------------------------------------------------------- favoriteService
\* History: session d is between its statement on the pair k and its read-back
\* while another session's statement changes the row of k the other way.
Crossing(d, op, k, changed) ==
    IF /\ changed /\ sess[d].op = op /\ sess[d].pc = "select"
       /\ <<sess[d].userId, sess[d].stationId>> = k
    THEN [sess[d] EXCEPT !.crossed = TRUE]
    ELSE sess[d]

\* getFavorites(userId): entry
CallGetFavorites(c, u) ==
    /\ Free(c)
    /\ sess' = [sess EXCEPT ![c] = Start(c, "getFavorites", u, "select")]
    /\ calls' = calls + 1
    /\ UNCHANGED <<user_favorites, hist, listStore, cacheVars, authVars>>

\* addFavorite(userId, stationId): entry and validation
CallAddFavorite(c, u, s) ==
    /\ Free(c)
    /\ sess' = [sess EXCEPT ![c] =
            IF s = ""
            THEN Finish([Start(c, "addFavorite", u, "done") EXCEPT !.stationId = s],
                        Err("validation", "stationId is required."))
            ELSE [Start(c, "addFavorite", u, "insert") EXCEPT !.stationId = s]]
    /\ calls' = calls + 1
    /\ UNCHANGED <<user_favorites, hist, listStore, cacheVars, authVars>>

\* addFavorite: the INSERT
AddFavoriteInsert(c) ==
    /\ sess[c].pc = "insert" /\ sess[c].op = "addFavorite"
    /\ \E up \in BOOLEAN :
         LET q == InsertFavorite(user_favorites, sess[c].userId, sess[c].stationId) IN
         IF ~up
         THEN /\ sess' = [sess EXCEPT ![c] =
                    Outage(@, "Database error while adding favorite.")]
              /\ UNCHANGED <<user_favorites, hist>>
         ELSE IF q.error
         THEN /\ sess' = [sess EXCEPT ![c] =
                    Finish(@, Err("store", "Database error while adding favorite."))]
              /\ UNCHANGED <<user_favorites, hist>>
         ELSE /\ sess' = [d \in Sessions |->
                    IF d = c THEN [sess[c] EXCEPT !.pc = "select"]
                    ELSE Crossing(d, "removeFavorite",
                                  <<sess[c].userId, sess[c].stationId>>,
                                  user_favorites[<<sess[c].userId, sess[c].stationId>>] = 0)]
              /\ user_favorites' = q.table
              /\ hist' = [hist EXCEPT
                            !.favLast[<<sess[c].userId, sess[c].stationId>>] = "none"]
    /\ UNCHANGED <<calls, listStore, cacheVars, authVars>>

\* The removeFavorite calls of other sessions that a new removeFavorite(u, s)
\* races with: same pair, DELETE not yet executed, the pair held once.
RacingRemovals(c, u, s) ==
    {d \in Sessions \ {c} :
        /\ s # "" /\ user_favorites[<<u, s>>] = 1
        /\ sess[d].op = "removeFavorite" /\ sess[d].pc = "delete"
        /\ sess[d].userId = u /\ sess[d].stationId = s}

\* removeFavorite(userId, stationId): entry and validation
\* (raced is history: it marks the calls of a race on one row)
CallRemoveFavorite(c, u, s) ==
    /\ Free(c)
    /\ sess' = [d \in Sessions |->
            IF d = c
            THEN IF s = ""
                 THEN Finish([Start(c, "removeFavorite", u, "done") EXCEPT !.stationId = s],
                             Err("validation", "stationId is required for removal."))
                 ELSE [Start(c, "removeFavorite", u, "delete") EXCEPT
                           !.stationId = s, !.raced = RacingRemovals(c, u, s) # {}]
            ELSE IF d \in RacingRemovals(c, u, s)
                 THEN [sess[d] EXCEPT !.raced = TRUE]
                 ELSE sess[d]]
    /\ calls' = calls + 1
    /\ UNCHANGED <<user_favorites, hist, listStore, cacheVars, authVars>>

\* removeFavorite: the DELETE ... RETURNING
RemoveFavoriteDelete(c) ==
    /\ sess[c].pc = "delete" /\ sess[c].op = "removeFavorite"
    /\ \E up \in BOOLEAN :
         LET k == <<sess[c].userId, sess[c].stationId>>
             q == DeleteFavorite(user_favorites, sess[c].userId, sess[c].stationId) IN
         IF ~up
         THEN /\ sess' = [sess EXCEPT ![c] =
                    Outage(@, "Database error while deleting favorite.")]
              /\ UNCHANGED <<user_favorites, hist>>
         ELSE /\ sess' = [d \in Sessions |->
                    IF d = c
                    THEN [sess[c] EXCEPT !.pc = "select", !.rowCount = q.rowCount]
                    ELSE Crossing(d, "addFavorite", k, user_favorites[k] > 0)]
              /\ user_favorites' = q.table
              /\ hist' = [hist EXCEPT !.favDeleted[k] = @ + user_favorites[k],
                                        !.favLast[k] = "none"]
    /\ UNCHANGED <<calls, listStore, cacheVars, authVars>>

\* getFavorites: the SELECT, and what each caller makes of it.
\*  - getFavorites itself rethrows 'Database error while fetching favorites.'
\*  - addFavorite returns the promise un-awaited, so its catch does not see the
\*    rejection and the caller gets getFavorites' error;
\*  - removeFavorite awaits it inside its try, so its catch rewraps the error.
GetFavoritesSelect(c) ==
    /\ sess[c].pc = "select"
    /\ sess[c].op \in {"getFavorites", "addFavorite", "removeFavorite"}
    /\ \E up \in BOOLEAN :
         LET s == sess[c]
             k == <<s.userId, s.stationId>>
             rows == SelectFavorites(user_favorites, s.userId) IN
         IF ~up
         THEN /\ sess' = [sess EXCEPT ![c] =
                    Outage(@, IF s.op = "removeFavorite"
                              THEN "Database error while deleting favorite."
                              ELSE "Database error while fetching favorites.")]
              /\ hist' = IF s.op = "removeFavorite" /\ s.rowCount > 0
                         THEN [hist EXCEPT !.favLost[k] = @ + 1]
                         ELSE hist
         ELSE IF s.op = "removeFavorite"
         THEN /\ sess' = [sess EXCEPT ![c] =
                    Finish(@, FavRemoval(rows, s.rowCount > 0))]
              /\ hist' = IF s.rowCount > 0
                         THEN [hist EXCEPT !.favRemovedTrue[k] = @ + 1,
                                           !.favLast[k] = "removed"]
                         ELSE [hist EXCEPT !.favLast[k] = "removed"]
         ELSE /\ sess' = [sess EXCEPT ![c] = Finish(@, Uuids(rows))]
              /\ hist' = IF s.op = "addFavorite"
                         THEN [hist EXCEPT !.favLast[k] = "added"]
                         ELSE hist
    /\ UNCHANGED <<user_favorites, calls, listStore, cacheVars, authVars>>

NextFav ==
    \/ \E c \in Sessions, u \in Users : CallGetFavorites(c, u)
    \/ \E c \in Sessions, u \in Users, s \in StationArgs : CallAddFavorite(c, u, s)
    \/ \E c \in Sessions, u \in Users, s \in StationArgs : CallRemoveFavorite(c, u, s)
    \/ \E c \in Sessions : AddFavoriteInsert(c)
    \/ \E c \in Sessions : RemoveFavoriteDelete(c)
    \/ \E c \in Sessions : GetFavoritesSelect(c)

\* ------------------------------------------------------- stationListService
\* Ghost: at the start of the call the list exists and belongs to someone else.
ForeignTo(u, l) ==
    \E r \in user_station_lists : r.list_id = l /\ r.user_id # u

StartList(c, op, u, l, pc) ==
    [Start(c, op, u, pc) EXCEPT !.listId = l, !.foreign = ForeignTo(u, l),
                                !.late = (l \in hist.listDeleted)]

\* A plausible slip: the check stops at !listName and misses trim() === ''.
CallCreateStationListNoBlankCheck(c, u, n) ==
    /\ Free(c)
    /\ list_id_seq + Cardinality({d \in Sessions : sess[d].pc = "insertList"}) < MaxLists
    /\ sess' = [sess EXCEPT ![c] =
            IF n = << >>
            THEN Finish([Start(c, "createStationList", u, "done") EXCEPT !.name = n],
                        Err("validation",
                            "List name is required and must be a non-empty string"))
            ELSE [Start(c, "createStationList", u, "insertList") EXCEPT !.name = n]]
    /\ calls' = calls + 1
    /\ UNCHANGED <<user_favorites, cacheVars, authVars, listStore, hist>>

\* createStationList(userId, listName): entry and validation.
\* The sequence has MaxLists values: no more creates are started than it can serve.
CallCreateStationList(c, u, n) ==
    /\ Free(c)
    /\ list_id_seq + Cardinality({d \in Sessions : sess[d].pc = "insertList"}) < MaxLists
    /\ sess' = [sess EXCEPT ![c] =
            IF Trim(n) = << >>
            THEN Finish([Start(c, "createStationList", u, "done") EXCEPT !.name = n],
                        Err("validation",
                            "List name is required and must be a non-empty string"))
            ELSE [Start(c, "createStationList", u, "insertList") EXCEPT !.name = n]]
    /\ calls' = calls + 1
    /\ UNCHANGED <<user_favorites, cacheVars, authVars, listStore, hist>>

\* createStationList: the INSERT ... RETURNING; NOW() may or may not have advanced
\* since the previous insert.
CreateStationListInsert(c) ==
    /\ sess[c].pc = "insertList" /\ sess[c].op = "createStationList"
    /\ \E up \in BOOLEAN, t \in {now, now + 1} :
         LET q == InsertList(user_station_lists, list_id_seq, sess[c].userId,
                             Trim(sess[c].name), t) IN
         IF ~up
         THEN /\ sess' = [sess EXCEPT ![c] =
                    Outage(@, "Database error while creating station list.")]
              /\ UNCHANGED <<user_station_lists, station_list_items, list_id_seq, now>>
         ELSE /\ user_station_lists' = q.table
              /\ list_id_seq' = list_id_seq + 1
              /\ now' = t
              /\ sess' = Observed([sess EXCEPT ![c] =
                    Finish(@, LET newList == CHOOSE r \in q.rows : TRUE IN
                              StationList(newList.list_id, newList.list_name,
                                          newList.created_at, NoStations))],
                    q.table, station_list_items, list_id_seq + 1)
              /\ UNCHANGED station_list_items
    /\ UNCHANGED <<user_favorites, cacheVars, authVars, calls, hist>>

\* getStationListDetails(userId, listId): entry
CallGetStationListDetails(c, u, l) ==
    /\ Free(c)
    /\ sess' = [sess EXCEPT ![c] =
            [StartList(c, "getStationListDetails", u, l, "detList") EXCEPT
                !.views = Views(u, user_station_lists, station_list_items)]]
    /\ calls' = calls + 1
    /\ UNCHANGED <<user_favorites, cacheVars, authVars, listStore, hist>>

\* What the caller of getStationListDetails makes of its rejection:
\*  - addStationToList returns the promise un-awaited: the error passes through;
\*  - removeStationFromList awaits it inside its try: its catch rewraps it.
DetailsError(op) ==
    IF op = "removeStationFromList"
    THEN "Database error while removing station from list."
    ELSE "Database error while fetching station list details."

\* What the caller of getStationListDetails makes of the value it resolves to.
\* pc "pre..." is removeStationFromList's first resolution, "det..." the last one.
DetailsReturn(s, value) ==
    IF s.op = "removeStationFromList"
    THEN IF s.pc \in {"preList", "preItems"}
         THEN IF value = Null
              THEN Finish(s, ListRemoval(Null, FALSE))
              ELSE [s EXCEPT !.pc = "deleteItem"]
         ELSE Finish(s, ListRemoval(value, s.rowCount > 0))
    ELSE Finish(s, value)

\* Ghost bookkeeping when a removeStationFromList call ends after its DELETE.
ItemHist(s, s2) ==
    LET k == <<s.listId, s.stationId>> IN
    IF s.op = "removeStationFromList" /\ s.pc \in {"detList", "detItems"}
       /\ s.rowCount > 0 /\ s2.pc = "done"
    THEN IF s2.result.kind = "listRemoval"
         THEN [hist EXCEPT !.itemRemovedTrue[k] = @ + 1]
         ELSE [hist EXCEPT !.itemLost[k] = @ + 1]
    ELSE hist

\* getStationListDetails: SELECT of the list row scoped by owner
GetStationListDetailsSelect(c) ==
    /\ sess[c].pc \in {"detList", "preList"}
    /\ \E up \in BOOLEAN :
         LET s == sess[c]
             rows == SelectListOwned(user_station_lists, s.listId, s.userId)
             s2 == IF ~up THEN Outage(s, DetailsError(s.op))
                   ELSE IF rows = {} THEN DetailsReturn(s, Null)
                   ELSE [s EXCEPT !.row = CHOOSE r \in rows : TRUE,
                                  !.pc = IF s.pc = "preList" THEN "preItems"
                                         ELSE "detItems"] IN
         /\ sess' = [sess EXCEPT ![c] = s2]
         /\ hist' = ItemHist(s, s2)
    /\ UNCHANGED <<user_favorites, cacheVars, authVars, listStore, calls>>

\* getStationUuidsForList(listId), awaited by getStationListDetails and by
\* updateStationListName; its error is rewrapped by the caller's catch.
GetStationUuidsForList(c) ==
    /\ sess[c].pc \in {"detItems", "preItems", "updItems"}
    /\ \E up \in BOOLEAN :
         LET s == sess[c]
             uuids == SelectItems(station_list_items, s.row.list_id)
             s2 == IF ~up
                   THEN Outage(s, IF s.pc = "updItems"
                                  THEN "Database error while updating station list name."
                                  ELSE DetailsError(s.op))
                   ELSE IF s.pc = "updItems" THEN Finish(s, Resolved(s.row, uuids))
                   ELSE DetailsReturn(s, Resolved(s.row, uuids)) IN
         /\ sess' = [sess EXCEPT ![c] = s2]
         /\ hist' = ItemHist(s, s2)
    /\ UNCHANGED <<user_favorites, cacheVars, authVars, listStore, calls>>

\* updateStationListName(userId, listId, newName): entry and validation
CallUpdateStationListName(c, u, l, n) ==
    /\ Free(c)
    /\ sess' = [sess EXCEPT ![c] =
            IF Trim(n) = << >>
            THEN Finish([StartList(c, "updateStationListName", u, l, "done")
                            EXCEPT !.name = n],
                        Err("validation",
                            "New list name is required and must be a non-empty string"))
            ELSE [StartList(c, "updateStationListName", u, l, "update")
                     EXCEPT !.name = n]]
    /\ calls' = calls + 1
    /\ UNCHANGED <<user_favorites, cacheVars, authVars, listStore, hist>>

\* updateStationListName: the UPDATE ... RETURNING
UpdateStationListNameUpdate(c) ==
    /\ sess[c].pc = "update" /\ sess[c].op = "updateStationListName"
    /\ \E up \in BOOLEAN :
         LET s == sess[c]
             q == UpdateListName(user_station_lists, Trim(s.name), s.listId, s.userId) IN
         IF ~up
         THEN /\ sess' = [sess EXCEPT ![c] =
                    Outage(@, "Database error while updating station list name.")]
              /\ UNCHANGED user_station_lists
         ELSE IF q.rowCount = 0
         THEN /\ sess' = [sess EXCEPT ![c] = Finish(@, Null)]
              /\ UNCHANGED user_station_lists
         ELSE /\ sess' = Observed([sess EXCEPT ![c].row = CHOOSE r \in q.rows : TRUE,
                                               ![c].pc = "updItems"],
                                  q.table, station_list_items, s.listId)
              /\ user_station_lists' = q.table
    /\ UNCHANGED <<user_favorites, cacheVars, authVars, station_list_items, list_id_seq, now, calls, hist>>

\* deleteStationList(userId, listId): entry
CallDeleteStationList(c, u, l) ==
    /\ Free(c)
    /\ sess' = [sess EXCEPT ![c] = StartList(c, "deleteStationList", u, l, "deleteList")]
    /\ calls' = calls + 1
    /\ UNCHANGED <<user_favorites, cacheVars, authVars, listStore, hist>>

\* deleteStationList: the DELETE (member rows go by the cascade, atomically)
DeleteStationListDelete(c) ==
    /\ sess[c].pc = "deleteList" /\ sess[c].op = "deleteStationList"
    /\ \E up \in BOOLEAN :
         LET s == sess[c]
             q == DeleteList(user_station_lists, station_list_items,
                             s.listId, s.userId) IN
         IF ~up
         THEN /\ sess' = [sess EXCEPT ![c] =
                    Outage(@, "Database error while deleting station list.")]
              /\ UNCHANGED <<user_station_lists, station_list_items, hist>>
         ELSE /\ sess' = Observed([sess EXCEPT ![c] = Finish(@, Bool(q.rowCount > 0))],
                                  q.lists, q.items, s.listId)
              /\ user_station_lists' = q.lists
              /\ station_list_items' = q.items
              /\ hist' = IF q.rowCount > 0
                         THEN [hist EXCEPT !.listDeleted = @ \cup {s.listId},
                                           !.cascaded = @ \/ (q.items # station_list_items)]
                         ELSE hist
    /\ UNCHANGED <<user_favorites, cacheVars, authVars, list_id_seq, now, calls>>

\* addStationToList(userId, listId, stationId): entry and validation
CallAddStationToList(c, u, l, st) ==
    /\ Free(c)
    /\ sess' = [sess EXCEPT ![c] =
            IF st = ""
            THEN Finish([StartList(c, "addStationToList", u, l, "done")
                            EXCEPT !.stationId = st],
                        Err("validation", "stationId (stationuuid) is required"))
            ELSE [StartList(c, "addStationToList", u, l, "listCheck")
                     EXCEPT !.stationId = st]]
    /\ calls' = calls + 1
    /\ UNCHANGED <<user_favorites, cacheVars, authVars, listStore, hist>>

\* addStationToList: the ownership check
AddStationToListCheck(c) ==
    /\ sess[c].pc = "listCheck" /\ sess[c].op = "addStationToList"
    /\ \E up \in BOOLEAN :
         LET s == sess[c]
             listCheck == SelectListOwned(user_station_lists, s.listId, s.userId) IN
         sess' = [sess EXCEPT ![c] =
                    IF ~up
                    THEN Outage(s, "Database error while adding station to list.")
                    ELSE IF Cardinality(listCheck) = 0 THEN Finish(s, Null)
                    ELSE [s EXCEPT !.pc = "insertItem"]]
    /\ UNCHANGED <<user_favorites, cacheVars, authVars, listStore, calls, hist>>

\* addStationToList: the INSERT of the membership row
AddStationToListInsert(c) ==
    /\ sess[c].pc = "insertItem" /\ sess[c].op = "addStationToList"
    /\ \E up \in BOOLEAN :
         LET s == sess[c]
             q == InsertItem(user_station_lists, station_list_items,
                             s.listId, s.stationId) IN
         IF ~up
         THEN /\ sess' = [sess EXCEPT ![c] =
                    Outage(@, "Database error while adding station to list.")]
              /\ UNCHANGED station_list_items
         ELSE IF q.error
         THEN /\ sess' = [sess EXCEPT ![c] =
                    Finish(@, Err("store", "Database error while adding station to list."))]
              /\ UNCHANGED station_list_items
         ELSE /\ sess' = Observed([sess EXCEPT ![c].pc = "detList"],
                                  user_station_lists, q.table, s.listId)
              /\ station_list_items' = q.table
    /\ UNCHANGED <<user_favorites, cacheVars, authVars, user_station_lists, list_id_seq, now, calls, hist>>

\* removeStationFromList(userId, listId, stationId): entry and validation
CallRemoveStationFromList(c, u, l, st) ==
    /\ Free(c)
    /\ sess' = [sess EXCEPT ![c] =
            IF st = ""
            THEN Finish([StartList(c, "removeStationFromList", u, l, "done")
                            EXCEPT !.stationId = st],
                        Err("validation",
                            "stationId (stationuuid) for removal is required"))
            ELSE [StartList(c, "removeStationFromList", u, l, "preList")
                     EXCEPT !.stationId = st]]
    /\ calls' = calls + 1
    /\ UNCHANGED <<user_favorites, cacheVars, authVars, listStore, hist>>

\* removeStationFromList: the DELETE of the membership row
RemoveStationFromListDelete(c) ==
    /\ sess[c].pc = "deleteItem" /\ sess[c].op = "removeStationFromList"
    /\ \E up \in BOOLEAN :
         LET s == sess[c]
             k == <<s.listId, s.stationId>>
             q == DeleteItem(station_list_items, s.listId, s.stationId) IN
         IF ~up
         THEN /\ sess' = [sess EXCEPT ![c] =
                    Outage(@, "Database error while removing station from list.")]
              /\ UNCHANGED <<station_list_items, hist>>
         ELSE /\ sess' = Observed([sess EXCEPT ![c].pc = "detList",
                                               ![c].rowCount = q.rowCount],
                                  user_station_lists, q.table, s.listId)
              /\ station_list_items' = q.table
              /\ hist' = [hist EXCEPT !.itemDeleted[k] = @ + station_list_items[k]]
    /\ UNCHANGED <<user_favorites, cacheVars, authVars, user_station_lists, list_id_seq, now, calls>>

\* getUserStationLists(userId): entry
CallGetUserStationLists(c, u) ==
    /\ Free(c)
    /\ sess' = [sess EXCEPT ![c] =
            [Start(c, "getUserStationLists", u, "allLists") EXCEPT
                !.views = Views(u, user_station_lists, station_list_items)]]
    /\ calls' = calls + 1
    /\ UNCHANGED <<user_favorites, cacheVars, authVars, listStore, hist>>

\* getUserStationLists: the SELECT of the user's list rows; rows.map then sends
\* one getStationUuidsForList query per row (Promise.all of none resolves to []).
GetUserStationListsSelect(c) ==
    /\ sess[c].pc = "allLists" /\ sess[c].op = "getUserStationLists"
    /\ \E up \in BOOLEAN :
         \E rows \in SelectListsOfUser(user_station_lists, sess[c].userId) :
            sess' = [sess EXCEPT ![c] =
                IF ~up
                THEN Outage(@, "Database error while fetching station lists.")
                ELSE IF Len(rows) = 0 THEN Finish(@, Lists(<< >>))
                ELSE [@ EXCEPT !.pc = "allItems", !.rows = rows,
                               !.uuids = [i \in 1..Len(rows) |-> Null]]]
    /\ UNCHANGED <<user_favorites, cacheVars, authVars, listStore, calls, hist>>

\* getUserStationLists: one of the getStationUuidsForList queries is answered.
\* Promise.all is returned un-awaited: it rejects with the helper's own error
\* as soon as one query fails, and resolves when the last one is answered.
GetUserStationListsItems(c) ==
    /\ sess[c].pc = "allItems" /\ sess[c].op = "getUserStationLists"
    /\ \E up \in BOOLEAN :
         \E i \in {j \in 1..Len(sess[c].rows) : sess[c].uuids[j] = Null} :
            LET s == sess[c]
                uuids == [s.uuids EXCEPT ![i] =
                             Uuids(SelectItems(station_list_items, s.rows[i].list_id))] IN
            sess' = [sess EXCEPT ![c] =
                IF ~up
                THEN Outage(s, "Database error while fetching station items.")
                ELSE IF \A j \in 1..Len(s.rows) : uuids[j] # Null
                THEN Finish(s, Lists([j \in 1..Len(s.rows) |->
                                        Resolved(s.rows[j], uuids[j].stationIds)]))
                ELSE [s EXCEPT !.uuids = uuids]]
    /\ UNCHANGED <<user_favorites, cacheVars, authVars, listStore, calls, hist>>

NextList ==
    \/ \E c \in Sessions, u \in Users, n \in NameArgs : CallCreateStationList(c, u, n)
    \/ \E c \in Sessions : CreateStationListInsert(c)
    \/ \E c \in Sessions, u \in Users, l \in ListIds : CallGetStationListDetails(c, u, l)
    \/ \E c \in Sessions : GetStationListDetailsSelect(c)
    \/ \E c \in Sessions : GetStationUuidsForList(c)
    \/ \E c \in Sessions, u \in Users, l \in ListIds, n \in NameArgs :
           CallUpdateStationListName(c, u, l, n)
    \/ \E c \in Sessions : UpdateStationListNameUpdate(c)
    \/ \E c \in Sessions, u \in Users, l \in ListIds : CallDeleteStationList(c, u, l)
    \/ \E c \in Sessions : DeleteStationListDelete(c)
    \/ \E c \in Sessions, u \in Users, l \in ListIds, st \in StationArgs :
           CallAddStationToList(c, u, l, st)
    \/ \E c \in Sessions : AddStationToListCheck(c)
    \/ \E c \in Sessions : AddStationToListInsert(c)
    \/ \E c \in Sessions, u \in Users, l \in ListIds, st \in StationArgs :
           CallRemoveStationFromList(c, u, l, st)
    \/ \E c \in Sessions : RemoveStationFromListDelete(c)

\* ------------------------------------------------------ radioBrowserService
\* Strings are sequences of tokens; an optional argument is absent (undefined)
\* or holds a value.
Undefined == [def |-> FALSE, v |-> << >>]
Str(s) == [def |-> TRUE, v |-> s]
UndefinedNumber == [def |-> FALSE, v |-> 0]
Num(n) == [def |-> TRUE, v |-> n]

\* const CACHE_EXPIRATION_SECONDS = 3600
CACHE_EXPIRATION_SECONDS == 3600
\* limit: number = 100
DefaultLimit == 100
\* Seconds the clock advances in one step, and how many steps it takes.
TickSeconds == 1800
MaxTicks == 2

LimitArgs == {UndefinedNumber, Num(50), Num(100)}
NameFilterArgs == {Undefined, Str(<< >>), Str(<<"jazz">>)}
TagFilterArgs == {Undefined, Str(<< >>), Str(<<"rock">>)}
\* Station arrays the directory may answer with (station records are opaque).
StationArrays == {<< >>, <<"{st1}", "{st2}">>}
\* The filter combinations callers pass: every way of leaving a field out.
Filters ==
    {<<UndefinedNumber, Undefined, Undefined>>,
     <<Num(100), Str(<< >>), Str(<< >>)>>,
     <<Num(50), Str(<<"jazz">>), Undefined>>,
     <<Num(50), Str(<<"jazz">>), Str(<< >>)>>,
     <<UndefinedNumber, Str(<< >>), Str(<<"rock">>)>>,
     <<Num(100), Undefined, Str(<<"rock">>)>>,
     <<Num(100), Str(<< >>), Str(<<"rock">>)>>}
\* Filters whose text holds the delimiter of the key template (name and tag
\* are query-string values: any text).
DelimiterFilters ==
    {<<Num(100), Str(<<"a", ":tag=">>), Str(<<"b">>)>>,
     <<Num(100), Str(<<"a">>), Str(<<":tag=", "b">>)>>,
     <<UndefinedNumber, Str(<<"a">>), Str(<<"b">>)>>,
     <<Num(50), Str(<<"a">>), Undefined>>}
SearchSessions == {"r1", "r2"}

\* String(n) of a non-negative integer: its decimal digits.
Digit(d) == <<"0", "1", "2", "3", "4", "5", "6", "7", "8", "9">>[d + 1]

RECURSIVE NumberToString(_)
NumberToString(n) == IF n < 10 THEN <<Digit(n)>> ELSE NumberToString(n \div 10) \o <<Digit(n % 10)>>

\* The default parameter value applies to an undefined argument only.
LimitOrDefault(limit) == IF limit.def THEN limit.v ELSE DefaultLimit

\* x || '' : undefined and '' are falsy.
Truthy(x) == x.def /\ x.v # << >>
OrEmpty(x) == IF Truthy(x) THEN x.v ELSE << >>

\* A plausible slip: `${name}` and `${tag}` interpolated without || ''.
CacheKeyRaw(limit, name, tag) ==
    <<"radioStations:limit=">> \o NumberToString(LimitOrDefault(limit))
        \o <<":name=">> \o (IF name.def THEN name.v ELSE <<"undefined">>)
        \o <<":tag=">> \o (IF tag.def THEN tag.v ELSE <<"undefined">>)

\* `radioStations:limit=${limit}:name=${name || ''}:tag=${tag || ''}`
CacheKey(limit, name, tag) ==
    <<"radioStations:limit=">> \o NumberToString(LimitOrDefault(limit))
        \o <<":name=">> \o OrEmpty(name) \o <<":tag=">> \o OrEmpty(tag)

CacheKeys ==
    {CacheKey(l, n, t) : l \in LimitArgs, n \in NameFilterArgs, t \in TagFilterArgs}
        \cup {CacheKey(f[1], f[2], f[3]) : f \in DelimiterFilters}

\* The request sent to the directory: limit always, name and tag when truthy
\* (encodeURIComponent leaves the alphanumeric tokens used here as they are).
ApiUrl(limit, name, tag) ==
    <<"/stations/search?limit=">> \o NumberToString(LimitOrDefault(limit))
        \o <<"&hidebroken=true&order=clickcount&reverse=true">>
        \o (IF Truthy(name) THEN <<"&name=">> \o name.v ELSE << >>)
        \o (IF Truthy(tag) THEN <<"&tag=">> \o tag.v ELSE << >>)

\* JSON.stringify of a station array: "[" e1 "," e2 ... "]".
RECURSIVE Joined(_)
Joined(arr) ==
    IF arr = << >> THEN << >>
    ELSE IF Len(arr) = 1 THEN arr
    ELSE <<Head(arr), ",">> \o Joined(Tail(arr))

Stringify(arr) == <<"[">> \o Joined(arr) \o <<"]">>

\* JSON.parse of a text: the array, or a SyntaxError.
RECURSIVE Elements(_)
Elements(inner) ==
    IF inner = << >> THEN [ok |-> TRUE, value |-> << >>]
    ELSE IF Head(inner) \in {",", "[", "]"} THEN [ok |-> FALSE, value |-> << >>]
    ELSE IF Len(inner) = 1 THEN [ok |-> TRUE, value |-> inner]
    ELSE IF inner[2] # "," \/ Len(inner) = 2 THEN [ok |-> FALSE, value |-> << >>]
    ELSE LET rest == Elements(SubSeq(inner, 3, Len(inner))) IN
         [ok |-> rest.ok, value |-> <<Head(inner)>> \o rest.value]

Parse(text) ==
    IF Len(text) >= 2 /\ text[1] = "[" /\ text[Len(text)] = "]"
    THEN Elements(SubSeq(text, 2, Len(text) - 1))
    ELSE [ok |-> FALSE, value |-> << >>]

\* The filters a search is for: (limit, name || '', tag || '').
Normalized(limit, name, tag) == <<LimitOrDefault(limit), OrEmpty(name), OrEmpty(tag)>>

\* Station[] returned by getStations.
StationsResult(arr) == [kind |-> "stations", data |-> arr]

\* ioredis connection states; with lazyConnect the client is constructed in
\* "wait" and leaves it only when a command is sent or connect() is called.
\* "uninitialized_mock" is the stand-in used when the constructor throws.
RedisStatuses ==
    {"wait", "connecting", "connect", "ready", "close", "reconnecting", "end",
     "uninitialized_mock"}

\* (storedAt and storedFor are history: when the entry was written, and by a
\* search for which filters)
NoEntry == [present |-> FALSE, value |-> << >>, expiresAt |-> 0, storedAt |-> 0,
            storedFor |-> << >>]

\* GET key: the value, or null (absent or expired).
RedisGet(data, key, t) ==
    IF data[key].present /\ t < data[key].expiresAt
    THEN Str(data[key].value)
    ELSE Undefined

\* SET key value EX ttl
\* A plausible slip: SET key value, without 'EX', ttl: the key never expires
\* (its expiry lies beyond every time the clock reaches).
RedisSetNoExpiry(data, key, value, ttl, t) ==
    [data EXCEPT ![key] = [present |-> TRUE, value |-> value,
                           expiresAt |-> (MaxTicks + 1) * TickSeconds + 1,
                           storedAt |-> t, storedFor |-> << >>]]

RedisSet(data, key, value, ttl, t) ==
    [data EXCEPT ![key] = [present |-> TRUE, value |-> value, expiresAt |-> t + ttl,
                           storedAt |-> t, storedFor |-> << >>]]

IdleSearch ==
    [pc |-> "idle", limit |-> UndefinedNumber, name |-> Undefined, tag |-> Undefined,
     cacheKey |-> << >>, stationsData |-> << >>, result |-> NoResult,
     \* ghost fields
     prior |-> [at |-> -1, value |-> << >>],
     cacheLookup |-> "none",   \* skipped | failed | miss | hit | corrupt
     cachedData |-> << >>,
     lookupAt |-> -1,          \* when the cache was read
     entryStoredAt |-> -1,     \* when the entry held for the key then was written
     entryStoredFor |-> << >>, \* the filters of the search that wrote it
     apiUrl |-> << >>, apiCalled |-> FALSE, apiOk |-> FALSE,
     cacheStore |-> "none"]    \* skipped | failed | stored

EmptySearchHist == [k \in CacheKeys |-> [at |-> -1, value |-> << >>]]

\* getStations returns: ghost record, per key, of the last search that
\* returned a station array fetched from the directory (at: when it returned).
Returned(s2) ==
    IF s2.pc = "done" /\ s2.result.kind = "stations" /\ s2.apiCalled
    THEN [shist EXCEPT ![s2.cacheKey] = [at |-> clock, value |-> s2.result.data]]
    ELSE shist

\* getStations(limit, name, tag): entry, cacheKey built
CallGetStations(r, limit, name, tag) ==
    /\ search[r].pc \in {"idle", "done"}
    /\ searches < MaxCalls
    /\ LET key == CacheKey(limit, name, tag) IN
       search' = [search EXCEPT ![r] =
            [IdleSearch EXCEPT !.pc = "cacheGet", !.limit = limit, !.name = name,
                               !.tag = tag, !.cacheKey = key,
                               !.prior = shist[key]]]
    /\ searches' = searches + 1
    /\ UNCHANGED <<redisStatus, redisData, clock, shist, libVars, authVars>>

\* The catch around the cache read: log and fall through to the API fetch.
\* A plausible slip: the cache read left outside any try / catch.
OnGetErrorRethrow(s, how) ==
    [s EXCEPT !.pc = "done", !.cacheLookup = how,
              !.result = Err("cache", "Redis GET error")]

OnGetError(s, how) == [s EXCEPT !.pc = "apiFetch", !.cacheLookup = how]

\* A cache hit: return the parsed array at once.
\* A plausible slip: the hit is logged but the function goes on to the API.
OnCacheHitFallThrough(s, text) ==
    [s EXCEPT !.pc = "apiFetch", !.cacheLookup = "hit", !.cachedData = text]

OnCacheHit(s, text) ==
    [s EXCEPT !.pc = "done", !.cacheLookup = "hit", !.cachedData = text,
              !.result = StationsResult(Parse(text).value)]

\* History of a cache read that the server answered: when it was made, and
\* when the entry held under the key at that time had been written.
Answered(s) ==
    [s EXCEPT !.lookupAt = clock,
              !.entryStoredAt = IF redisData[s.cacheKey].present
                                THEN redisData[s.cacheKey].storedAt
                                ELSE -1,
              !.entryStoredFor = IF redisData[s.cacheKey].present
                                 THEN redisData[s.cacheKey].storedFor
                                 ELSE << >>]

\* getStations: the cache read (try block of lines 61-75)
GetStationsCacheGet(r) ==
    /\ search[r].pc = "cacheGet"
    /\ \E ok \in BOOLEAN :
         LET s == search[r]
             cachedData == RedisGet(redisData, s.cacheKey, clock)
             s2 == IF redisStatus \in {"ready", "connecting", "reconnecting"}
                   THEN IF ~ok THEN OnGetError(s, "failed")
                        ELSE IF Truthy(cachedData)
                        THEN IF Parse(cachedData.v).ok
                             THEN OnCacheHit(Answered(s), cachedData.v)
                             ELSE OnGetError(Answered(s), "corrupt")
                        ELSE [Answered(s) EXCEPT !.pc = "apiFetch",
                                                 !.cacheLookup = "miss"]
                   ELSE [s EXCEPT !.pc = "apiFetch", !.cacheLookup = "skipped"] IN
         /\ search' = [search EXCEPT ![r] = s2]
         /\ shist' = Returned(s2)
    /\ UNCHANGED <<redisStatus, redisData, clock, searches, libVars, authVars>>

\* The catch around the API call: log and throw; nothing is returned.
\* A plausible slip: an empty list returned in place of the error.
OnApiErrorEmptyList(s) ==
    [s EXCEPT !.pc = "done", !.apiCalled = TRUE, !.apiOk = FALSE,
              !.result = StationsResult(<< >>)]

OnApiError(s) ==
    [s EXCEPT !.pc = "done", !.apiCalled = TRUE, !.apiOk = FALSE,
              !.result = Err("directory",
                             "Failed to fetch stations from Radio-Browser API.")]

\* getStations: axios.get(apiUrl); the directory answers with some station
\* array or the request fails.
GetStationsApiFetch(r) ==
    /\ search[r].pc = "apiFetch"
    /\ \E ok \in BOOLEAN, data \in StationArrays :
         LET s == [search[r] EXCEPT
                      !.apiUrl = ApiUrl(search[r].limit, search[r].name, search[r].tag)]
             s2 == IF ~ok THEN OnApiError(s)
                   ELSE [s EXCEPT !.pc = "cacheSet", !.apiCalled = TRUE, !.apiOk = TRUE,
                                  !.stationsData = data] IN
         /\ search' = [search EXCEPT ![r] = s2]
         /\ shist' = Returned(s2)
    /\ UNCHANGED <<redisStatus, redisData, clock, searches, libVars, authVars>>

\* The catch around the cache write: log, and return the API response.
\* A plausible slip: the cache write left outside its own try / catch, so its
\* error reaches the catch of the API call.
OnSetErrorRethrow(s) ==
    [s EXCEPT !.pc = "done", !.cacheStore = "failed",
              !.result = Err("directory",
                             "Failed to fetch stations from Radio-Browser API.")]

OnSetError(s) ==
    [s EXCEPT !.pc = "done", !.cacheStore = "failed",
              !.result = StationsResult(s.stationsData)]

\* getStations: the cache write (try block of lines 87-97) and the return
GetStationsCacheSet(r) ==
    /\ search[r].pc = "cacheSet"
    /\ \E ok \in BOOLEAN :
         LET s == search[r]
             s2 == IF redisStatus = "ready"
                   THEN IF ok
                        THEN [s EXCEPT !.pc = "done", !.cacheStore = "stored",
                                       !.result = StationsResult(s.stationsData)]
                        ELSE OnSetError(s)
                   ELSE [s EXCEPT !.pc = "done", !.cacheStore = "skipped",
                                  !.result = StationsResult(s.stationsData)] IN
         /\ search' = [search EXCEPT ![r] = s2]
         /\ redisData' = IF redisStatus = "ready" /\ ok
                         THEN [RedisSet(redisData, s.cacheKey, Stringify(s.stationsData),
                                        CACHE_EXPIRATION_SECONDS, clock)
                                  EXCEPT ![s.cacheKey].storedFor =
                                             Normalized(s.limit, s.name, s.tag)]
                         ELSE redisData
         /\ shist' = Returned(s2)
    /\ UNCHANGED <<redisStatus, clock, searches, libVars, authVars>>

\* Time passes.
Tick ==
    /\ clock < MaxTicks * TickSeconds
    /\ clock' = clock + TickSeconds
    /\ UNCHANGED <<redisStatus, redisData, search, searches, shist, libVars, authVars>>

\* The connection to the Redis server changes state (ioredis lifecycle);
\* nothing in the server leaves "wait": no command is sent in that state and
\* connect() is never called.
RedisStatusChange ==
    /\ redisStatus' \in
         CASE redisStatus = "connecting" -> {"connect", "close"}
           [] redisStatus = "connect" -> {"ready", "close"}
           [] redisStatus = "ready" -> {"close"}
           [] redisStatus = "close" -> {"reconnecting", "end"}
           [] redisStatus = "reconnecting" -> {"connecting"}
           [] OTHER -> {}
    /\ UNCHANGED <<redisData, clock, search, searches, shist, libVars, authVars>>

NextSearch ==
    \/ \E r \in SearchSessions, f \in Filters : CallGetStations(r, f[1], f[2], f[3])
    \/ \E r \in SearchSessions : GetStationsCacheGet(r)
    \/ \E r \in SearchSessions : GetStationsApiFetch(r)
    \/ \E r \in SearchSessions : GetStationsCacheSet(r)
    \/ Tick

\* One caller at a time, while the connection changes state under it.
NextSearchAnyClient ==
    \/ \E f \in Filters : CallGetStations("r1", f[1], f[2], f[3])
    \/ GetStationsCacheGet("r1")
    \/ GetStationsApiFetch("r1")
    \/ GetStationsCacheSet("r1")
    \/ Tick
    \/ RedisStatusChange

\* ------------------------------------------------- POST /api/auth/register
\* Users the store may come to hold.
MaxUsers == 3
\* email of the request body; "" stands for a missing email.
Emails == {"e1", "e2"}
EmailArgs == Emails \cup {""}
\* Concurrent register requests.
RegisterSessions == {"g1", "g2"}

IdleRegister == [pc |-> "idle", email |-> "", found |-> FALSE, response |-> NoResult]

\* users.find((user) => user.email === email)
FindUser(store, email) == {i \in 1..Len(store) : store[i].email = email}

\* Stores the service reaches by createStationList / addStationToList /
\* addFavorite calls, besides the empty store it starts with: u1 owns list 1,
\* which may hold s1, and u1 may have s1 among the favorites.
ListOne == [list_id |-> 1, user_id |-> "u1", list_name |-> <<"a">>, created_at |-> 1]

\* export const users: User[] = []; no register request is being served.
InitUsers ==
    /\ users = << >>
    /\ reg = [g \in RegisterSessions |-> IdleRegister]

InitSessions ==
    /\ sess = [c \in Sessions |-> IdleSession]
    /\ calls = 0
    /\ hist = EmptyHist
    /\ InitUsers

InitFavorites ==
    user_favorites \in {EmptyFavorites, [EmptyFavorites EXCEPT ![<<"u1", "s1">>] = 1]}

InitNoFavorites == user_favorites = EmptyFavorites

InitLists ==
    \/ /\ user_station_lists = {}
       /\ station_list_items = EmptyItems
       /\ list_id_seq = 0
       /\ now = 0
    \/ /\ user_station_lists = {ListOne}
       /\ station_list_items \in {EmptyItems, [EmptyItems EXCEPT ![<<1, "s1">>] = 1]}
       /\ list_id_seq = 1
       /\ now = 1

InitNoLists ==
    /\ user_station_lists = {}
    /\ station_list_items = EmptyItems
    /\ list_id_seq = 0
    /\ now = 0

InitCacheIdle ==
    /\ redisStatus = "wait"
    /\ redisData = [k \in CacheKeys |-> NoEntry]
    /\ clock = 0
    /\ search = [r \in SearchSessions |-> IdleSearch]
    /\ searches = 0
    /\ shist = EmptySearchHist

InitFav == InitFavorites /\ InitNoLists /\ InitSessions /\ InitCacheIdle

InitList == InitNoFavorites /\ InitLists /\ InitSessions /\ InitCacheIdle

SpecFav == InitFav /\ [][NextFav]_vars

SpecList == InitList /\ [][NextList]_vars

\* The list operations together with getUserStationLists.
NextRead ==
    \/ NextList
    \/ \E c \in Sessions, u \in Users : CallGetUserStationLists(c, u)
    \/ \E c \in Sessions : GetUserStationListsSelect(c)
    \/ \E c \in Sessions : GetUserStationListsItems(c)

SpecRead == InitList /\ [][NextRead]_vars

InitLibIdle == InitNoFavorites /\ InitNoLists /\ InitSessions

InitSearch ==
    /\ redisData = [k \in CacheKeys |-> NoEntry]
    /\ clock = 0
    /\ search = [r \in SearchSessions |-> IdleSearch]
    /\ searches = 0
    /\ shist = EmptySearchHist

\* The client as redisClient.ts constructs it.
InitCache ==
    /\ redisStatus \in {"wait", "uninitialized_mock"}
    /\ InitSearch
    /\ InitLibIdle

\* getStations against a client in any connection state.
InitCacheAnyClient ==
    /\ redisStatus \in RedisStatuses
    /\ InitSearch
    /\ InitLibIdle

SpecCache == InitCache /\ [][NextSearch]_vars

SpecCacheAnyClient == InitCacheAnyClient /\ [][NextSearchAnyClient]_vars


\* One caller at a time whose name and tag may hold the key's delimiter.
NextSearchDelimiters ==
    \/ \E f \in DelimiterFilters : CallGetStations("r1", f[1], f[2], f[3])
    \/ GetStationsCacheGet("r1")
    \/ GetStationsApiFetch("r1")
    \/ GetStationsCacheSet("r1")
    \/ Tick
    \/ RedisStatusChange

SpecCacheDelimiters == InitCacheAnyClient /\ [][NextSearchDelimiters]_vars

\* Texts that are no JSON (JSON.parse throws a SyntaxError on them): a
\* truncated array and a plain word; and the empty string, which is falsy.
ForeignTexts == {<<"[", "{st1}">>, <<"oops">>, << >>}

\* The filter used by the searches that meet such texts.
ForeignFilters == {<<Num(50), Str(<<"jazz">>), Undefined>>}

\* The Redis server is shared: some other client (or an older release of the
\* server) has written a text under a key of the search cache.
\* (at most one such text is held at a time)
ForeignSet(key, text) ==
    /\ \A k \in CacheKeys : redisData[k].present => Parse(redisData[k].value).ok
    /\ redisData' = RedisSet(redisData, key, text, CACHE_EXPIRATION_SECONDS, clock)
    /\ UNCHANGED <<redisStatus, clock, search, searches, shist, libVars, authVars>>

NextSearchForeign ==
    \/ \E f \in ForeignFilters : CallGetStations("r1", f[1], f[2], f[3])
    \/ GetStationsCacheGet("r1")
    \/ GetStationsApiFetch("r1")
    \/ GetStationsCacheSet("r1")
    \/ Tick
    \/ RedisStatusChange
    \/ \E f \in ForeignFilters, text \in ForeignTexts :
           ForeignSet(CacheKey(f[1], f[2], f[3]), text)

SpecCacheForeign == InitCacheAnyClient /\ [][NextSearchForeign]_vars

\* ------------------------------------------------ races on an existing list
\* Only add and remove calls run, on a store that holds list 1.
InitRace ==
    /\ InitFavorites
    /\ user_station_lists = {ListOne}
    /\ station_list_items \in {EmptyItems, [EmptyItems EXCEPT ![<<1, "s1">>] = 1]}
    /\ list_id_seq = 1
    /\ now = 1
    /\ InitSessions
    /\ InitCacheIdle

NextRace ==
    \/ \E c \in Sessions, u \in Users, s \in StationArgs : CallAddFavorite(c, u, s)
    \/ \E c \in Sessions, u \in Users, s \in StationArgs : CallRemoveFavorite(c, u, s)
    \/ \E c \in Sessions : AddFavoriteInsert(c)
    \/ \E c \in Sessions : RemoveFavoriteDelete(c)
    \/ \E c \in Sessions : GetFavoritesSelect(c)
    \/ \E c \in Sessions, u \in Users, l \in ListIds, st \in StationArgs :
           CallAddStationToList(c, u, l, st)
    \/ \E c \in Sessions : AddStationToListCheck(c)
    \/ \E c \in Sessions : AddStationToListInsert(c)
    \/ \E c \in Sessions, u \in Users, l \in ListIds, st \in StationArgs :
           CallRemoveStationFromList(c, u, l, st)
    \/ \E c \in Sessions : RemoveStationFromListDelete(c)
    \/ \E c \in Sessions : GetStationListDetailsSelect(c)
    \/ \E c \in Sessions : GetStationUuidsForList(c)

SpecRace == InitRace /\ [][NextRace]_vars

\* -------------------------------------------------------------- the routers
\* Authorization header of a request: absent, a token that does not verify, or
\* a token that verifies to a user.
Tokens == {"none", "bad"} \cup Users

\* verifyToken: the decoded user when the bearer token verifies, else 401.
verifyToken(token) ==
    IF token \in Users THEN [ok |-> TRUE, user |-> token]
    ELSE [ok |-> FALSE, user |-> ""]

\* res.status(n).json(..)
Response(status) == [kind |-> "response", status |-> status]

\* const TEMP_USER_ID = 1 (the first row of users)
TEMP_USER_ID == "u1"

\* The handler has settled on user u and is about to run its operation.
Routed(c, router, u) ==
    /\ sess[c].request.pending
    /\ sess[c].request.router = router
    /\ sess[c].request.userId = u

\* A request to /api/me/favorites: router.use(verifyToken) runs first; the
\* handler reads req.user.id.
FavoritesRequest(c, token) ==
    /\ Free(c)
    /\ LET v == verifyToken(token) IN
       sess' = [sess EXCEPT ![c] =
           IF ~v.ok
           THEN [IdleSession EXCEPT
                    !.pc = "done", !.op = "request", !.result = Response(401),
                    !.request = [router |-> "favorites", token |-> token,
                                 userId |-> "", pending |-> FALSE,
                                 response |-> Response(401)]]
           ELSE [IdleSession EXCEPT
                    !.request = [router |-> "favorites", token |-> token,
                                 userId |-> v.user, pending |-> TRUE,
                                 response |-> NoResult]]]
    /\ UNCHANGED <<user_favorites, calls, hist, listStore, cacheVars, authVars>>

\* A request to /api/me/lists: router.use(verifyToken) is commented out, so
\* req.user is never set and the handler takes req.user?.id || TEMP_USER_ID.
ListsRequest(c, token) ==
    /\ Free(c)
    /\ sess' = [sess EXCEPT ![c] =
           [IdleSession EXCEPT
               !.request = [router |-> "lists", token |-> token,
                            userId |-> TEMP_USER_ID, pending |-> TRUE,
                            response |-> NoResult]]]
    /\ UNCHANGED <<user_favorites, calls, hist, listStore, cacheVars, authVars>>

InitAuth == InitFavorites /\ InitLists /\ InitSessions /\ InitCacheIdle

\* Requests arrive at the two routers; the handlers of the favorites router
\* call favoriteService, those of the lists router run the statements of
\* getStationListDetails (GET /:listId) and deleteStationList (DELETE /:listId).
NextAuth ==
    \/ \E c \in Sessions, token \in Tokens : FavoritesRequest(c, token)
    \/ \E c \in Sessions, token \in Tokens : ListsRequest(c, token)
    \/ \E c \in Sessions, u \in Users :
           Routed(c, "favorites", u) /\ CallGetFavorites(c, u)
    \/ \E c \in Sessions, u \in Users, s \in StationArgs :
           Routed(c, "favorites", u) /\ CallAddFavorite(c, u, s)
    \/ \E c \in Sessions, u \in Users, l \in ListIds :
           Routed(c, "lists", u) /\ CallGetStationListDetails(c, u, l)
    \/ \E c \in Sessions, u \in Users, l \in ListIds :
           Routed(c, "lists", u) /\ CallDeleteStationList(c, u, l)
    \/ \E c \in Sessions : AddFavoriteInsert(c)
    \/ \E c \in Sessions : GetFavoritesSelect(c)
    \/ \E c \in Sessions : GetStationListDetailsSelect(c)
    \/ \E c \in Sessions : GetStationUuidsForList(c)
    \/ \E c \in Sessions : DeleteStationListDelete(c)

SpecAuth == InitAuth /\ [][NextAuth]_vars

\* router.post('/register'): the handler up to its first await. A missing
\* email or password is answered 400, an email found in the store 409;
\* otherwise the handler awaits hashPassword.
\* (found is history: the email was in the store when the request came)
RegisterRequest(g, email, password) ==
    /\ reg[g].pc \in {"idle", "done"}
    /\ Len(users) + Cardinality({h \in RegisterSessions : reg[h].pc = "hash"}) < MaxUsers
    /\ reg' = [reg EXCEPT ![g] =
           IF email = "" \/ ~password
           THEN [pc |-> "done", email |-> email, found |-> FindUser(users, email) # {},
                 response |-> Response(400)]
           ELSE IF FindUser(users, email) # {}
           THEN [pc |-> "done", email |-> email, found |-> TRUE,
                 response |-> Response(409)]
           ELSE [pc |-> "hash", email |-> email, found |-> FALSE,
                 response |-> NoResult]]
    /\ UNCHANGED <<users, libVars, cacheVars>>

\* router.post('/register'): hashPassword has settled. The user is pushed and
\* 201 is answered, or the rejection is answered 500. (uuidv4() gives a fresh
\* id: the position in the array stands for it.)
RegisterHashed(g) ==
    /\ reg[g].pc = "hash"
    /\ \E ok \in BOOLEAN :
         IF ok
         THEN /\ users' = Append(users, [id |-> Len(users) + 1, email |-> reg[g].email])
              /\ reg' = [reg EXCEPT ![g].pc = "done", ![g].response = Response(201)]
         ELSE /\ users' = users
              /\ reg' = [reg EXCEPT ![g].pc = "done", ![g].response = Response(500)]
    /\ UNCHANGED <<libVars, cacheVars>>

NextRegister ==
    \/ \E g \in RegisterSessions, email \in EmailArgs, password \in BOOLEAN :
           RegisterRequest(g, email, password)
    \/ \E g \in RegisterSessions : RegisterHashed(g)

InitRegister == InitLibIdle /\ InitCacheIdle

SpecRegister == InitRegister /\ [][NextRegister]_vars

\* --------------------------------------- DELETE /api/me/favorites/:stationId
\* res.status(n).json(body)
Json(status, body) == [kind |-> "response", status |-> status, body |-> body]

\* A request to the favorites router that runs its statements inline
\* (favoriteRoutes.ts): router.use(verifyToken) runs first.
FavoritesDbRequest(c, token) ==
    /\ Free(c)
    /\ LET v == verifyToken(token) IN
       sess' = [sess EXCEPT ![c] =
           IF ~v.ok
           THEN [IdleSession EXCEPT
                    !.pc = "done", !.op = "request", !.result = Response(401),
                    !.request = [router |-> "favoritesDb", token |-> token,
                                 userId |-> "", pending |-> FALSE,
                                 response |-> Response(401)]]
           ELSE [IdleSession EXCEPT
                    !.request = [router |-> "favoritesDb", token |-> token,
                                 userId |-> v.user, pending |-> TRUE,
                                 response |-> NoResult]]]
    /\ UNCHANGED <<user_favorites, calls, hist, listStore, cacheVars, authVars>>

\* serviceErrorMessage.includes('is required')
IncludesIsRequired(message) ==
    message \in {"stationId is required.", "stationId is required for removal."}

\* router.delete('/:stationId') on top of favoriteService.removeFavorite: what
\* it answers once the service call has settled.
DeleteFavoriteAnswer(result) ==
    IF result.kind = "favRemoval"
    THEN IF result.success
         THEN Json(200, Uuids(result.updatedFavorites))
         ELSE Json(404, [message |-> "Favorite station not found for this user."])
    ELSE IF IncludesIsRequired(result.message)
    THEN Json(400, [message |-> result.message])
    ELSE Json(500, [message |->
                      "An unexpected error occurred while deleting the favorite."])

\* router.delete('/:stationId') with the DELETE and the SELECT inline: what it
\* answers once its statements have settled.
DeleteFavoriteAnswerInline(result) ==
    IF result.kind = "favRemoval"
    THEN IF result.success
         THEN Json(200, Uuids(result.updatedFavorites))
         ELSE Json(404, [message |-> "Station UUID not found in favorites for this user.",
                         favorites |-> result.updatedFavorites])
    ELSE Json(500, [message |-> "Error deleting favorite from database"])

\* The DELETE handler sends its response.
FavoritesDeleteRespond(c) ==
    /\ sess[c].pc = "done" /\ sess[c].op = "removeFavorite"
    /\ sess[c].request.router \in {"favorites", "favoritesDb"}
    /\ sess[c].request.response = NoResult
    /\ sess' = [sess EXCEPT ![c].request.response =
                    IF sess[c].request.router = "favorites"
                    THEN DeleteFavoriteAnswer(sess[c].result)
                    ELSE DeleteFavoriteAnswerInline(sess[c].result)]
    /\ UNCHANGED <<user_favorites, calls, hist, listStore, cacheVars, authVars>>

InitFavRoutes == InitFavorites /\ InitNoLists /\ InitSessions /\ InitCacheIdle

\* DELETE requests arrive at either version of the favorites router; the
\* inline version runs the two statements of removeFavorite itself.
NextFavRoutes ==
    \/ \E c \in Sessions, token \in Tokens : FavoritesRequest(c, token)
    \/ \E c \in Sessions, token \in Tokens : FavoritesDbRequest(c, token)
    \/ \E c \in Sessions, u \in Users, s \in Stations :
           Routed(c, "favorites", u) /\ CallRemoveFavorite(c, u, s)
    \/ \E c \in Sessions, u \in Users, s \in Stations :
           Routed(c, "favoritesDb", u) /\ CallRemoveFavorite(c, u, s)
    \/ \E c \in Sessions : RemoveFavoriteDelete(c)
    \/ \E c \in Sessions : GetFavoritesSelect(c)
    \/ \E c \in Sessions : FavoritesDeleteRespond(c)

SpecFavRoutes == InitFavRoutes /\ [][NextFavRoutes]_vars

\* ------------------------------------------------ one caller, calls in a row
\* A single handler issues the calls one after the other, each running to its
\* end before the next starts; the store may reject any query.
InitSeq == InitFavorites /\ InitLists /\ InitSessions /\ InitCacheIdle

NextSeq ==
    \/ \E u \in Users : CallGetFavorites("c1", u)
    \/ \E u \in Users, s \in StationArgs : CallAddFavorite("c1", u, s)
    \/ \E u \in Users, s \in StationArgs : CallRemoveFavorite("c1", u, s)
    \/ AddFavoriteInsert("c1")
    \/ RemoveFavoriteDelete("c1")
    \/ GetFavoritesSelect("c1")
    \/ \E u \in Users, n \in NameArgs : CallCreateStationList("c1", u, n)
    \/ CreateStationListInsert("c1")
    \/ \E u \in Users, l \in ListIds : CallGetStationListDetails("c1", u, l)
    \/ GetStationListDetailsSelect("c1")
    \/ GetStationUuidsForList("c1")
    \/ \E u \in Users, l \in ListIds, n \in NameArgs :
           CallUpdateStationListName("c1", u, l, n)
    \/ UpdateStationListNameUpdate("c1")
    \/ \E u \in Users, l \in ListIds : CallDeleteStationList("c1", u, l)
    \/ DeleteStationListDelete("c1")
    \/ \E u \in Users, l \in ListIds, st \in StationArgs :
           CallAddStationToList("c1", u, l, st)
    \/ AddStationToListCheck("c1")
    \/ AddStationToListInsert("c1")
    \/ \E u \in Users, l \in ListIds, st \in StationArgs :
           CallRemoveStationFromList("c1", u, l, st)
    \/ RemoveStationFromListDelete("c1")
    \/ \E u \in Users : CallGetUserStationLists("c1", u)
    \/ GetUserStationListsSelect("c1")
    \/ GetUserStationListsItems("c1")

SpecSeq == InitSeq /\ [][NextSeq]_vars

\* C1: in every reachable state the favorites store holds at most one row for
\* each (userId, stationUuid) pair, whatever add and remove calls interleave.
C1_AtMostOneFavoriteRow ==
    \A k \in Users \X Stations : user_favorites[k] <= 1

\* C1 witness: a second add of a pair already stored has run its INSERT.
C1_Witness ==
    \E c \in Sessions :
        /\ sess[c].op = "addFavorite" /\ sess[c].pc = "select"
        /\ user_favorites[<<sess[c].userId, sess[c].stationId>>] = 1
        /\ \E d \in Sessions \ {c} :
               /\ sess[d].op = "addFavorite" /\ sess[d].pc = "done"
               /\ sess[d].userId = sess[c].userId
               /\ sess[d].stationId = sess[c].stationId
               /\ sess[d].result.kind = "uuids"

\* -------------------------------------------------------------- ownership
ListOps == {"getStationListDetails", "updateStationListName", "deleteStationList",
            "addStationToList", "removeStationFromList"}

\* The value each list operation returns for "not found or not owned".
NotFound(op) ==
    CASE op = "deleteStationList" -> Bool(FALSE)
      [] op = "removeStationFromList" -> ListRemoval(Null, FALSE)
      [] OTHER -> Null

\* C2: a call of getDetail, rename, delete, addStation or removeStation on a
\* list that belongs to another user never returns a success value: what it
\* returns is the not-found result of the operation (null, false, or
\* {list: null, removed: false}); it throws only on invalid input or on a
\* store outage.
C2_OwnershipIsolation ==
    \A c \in Sessions :
        (sess[c].pc = "done" /\ sess[c].foreign) =>
            /\ sess[c].op \in ListOps
            /\ \/ sess[c].result = NotFound(sess[c].op)
               \/ IsValidationError(sess[c].result)
               \/ IsStoreError(sess[c].result) /\ sess[c].outage

\* C2 witness: two calls against another user's list have returned not-found.
C2_Witness ==
    /\ sess["c1"].pc = "done" /\ sess["c1"].foreign
    /\ sess["c1"].op = "addStationToList" /\ sess["c1"].result = Null
    /\ sess["c2"].pc = "done" /\ sess["c2"].foreign
    /\ sess["c2"].op = "removeStationFromList"
    /\ sess["c2"].result = ListRemoval(Null, FALSE)

\* The result of a list operation that runs alone on the given tables, every
\* query of it served (up) or rejected (~up) by the store.
DetailsAlone(lists, items, u, l) ==
    LET rows == SelectListOwned(lists, l, u) IN
    IF rows = {} THEN Null
    ELSE Resolved(CHOOSE r \in rows : TRUE, SelectItems(items, l))

RunAlone(op, lists, items, u, l, st, n, up) ==
    CASE op = "getStationListDetails" ->
            IF ~up THEN Err("store", DetailsError(op))
            ELSE DetailsAlone(lists, items, u, l)
      [] op = "updateStationListName" ->
            IF Trim(n) = << >>
            THEN Err("validation",
                     "New list name is required and must be a non-empty string")
            ELSE IF ~up
            THEN Err("store", "Database error while updating station list name.")
            ELSE LET q == UpdateListName(lists, Trim(n), l, u) IN
                 IF q.rowCount = 0 THEN Null
                 ELSE Resolved(CHOOSE r \in q.rows : TRUE, SelectItems(items, l))
      [] op = "deleteStationList" ->
            IF ~up THEN Err("store", "Database error while deleting station list.")
            ELSE Bool(DeleteList(lists, items, l, u).rowCount > 0)
      [] op = "addStationToList" ->
            IF st = "" THEN Err("validation", "stationId (stationuuid) is required")
            ELSE IF ~up
            THEN Err("store", "Database error while adding station to list.")
            ELSE IF Cardinality(SelectListOwned(lists, l, u)) = 0 THEN Null
            ELSE LET q == InsertItem(lists, items, l, st) IN
                 IF q.error
                 THEN Err("store", "Database error while adding station to list.")
                 ELSE DetailsAlone(lists, q.table, u, l)
      [] op = "removeStationFromList" ->
            IF st = ""
            THEN Err("validation", "stationId (stationuuid) for removal is required")
            ELSE IF ~up THEN Err("store", DetailsError(op))
            ELSE IF DetailsAlone(lists, items, u, l) = Null
            THEN ListRemoval(Null, FALSE)
            ELSE LET q == DeleteItem(items, l, st) IN
                 ListRemoval(DetailsAlone(lists, q.table, u, l), q.rowCount > 0)

\* The tables of the run that differs only in that list l does not exist.
ListsWithout(l) == {r \in user_station_lists : r.list_id # l}
ItemsWithout(l) ==
    [k \in DOMAIN station_list_items |->
        IF k[1] = l THEN 0 ELSE station_list_items[k]]

\* C3: a list operation called on another user's list gives its caller exactly
\* the output that the same call gives in the run that differs only in that the
\* list does not exist (same arguments, same store availability).
C3_NotOwnedLooksAbsent ==
    \A c \in Sessions :
        (sess[c].pc = "done" /\ sess[c].foreign) =>
            sess[c].result =
                RunAlone(sess[c].op, ListsWithout(sess[c].listId),
                         ItemsWithout(sess[c].listId), sess[c].userId,
                         sess[c].listId, sess[c].stationId, sess[c].name,
                         ~sess[c].outage)

\* C3 witness: a rename and a getDetail on another user's list have returned.
C3_Witness ==
    /\ sess["c1"].pc = "done" /\ sess["c1"].foreign
    /\ sess["c1"].op = "updateStationListName" /\ sess["c1"].result = Null
    /\ sess["c2"].pc = "done" /\ sess["c2"].foreign
    /\ sess["c2"].op = "getStationListDetails" /\ sess["c2"].result = Null

\* C4: every station_list_items row refers to a user_station_lists row that
\* exists; once deleteStationList has returned true for a list id, no member
\* row of it is left and every getStationListDetails started afterwards returns
\* null (or fails on a store outage).
C4_CascadeOnDelete ==
    /\ \A k \in DOMAIN station_list_items :
           station_list_items[k] > 0 =>
               \E r \in user_station_lists : r.list_id = k[1]
    /\ \A l \in hist.listDeleted :
           /\ \A s \in Stations : station_list_items[<<l, s>>] = 0
           /\ ~\E r \in user_station_lists : r.list_id = l
    /\ \A c \in Sessions :
           (sess[c].pc = "done" /\ sess[c].late
            /\ sess[c].op = "getStationListDetails") =>
               \/ sess[c].result = Null
               \/ IsStoreError(sess[c].result) /\ sess[c].outage

\* C4 witness: a delete that took member rows with it has returned true while
\* an addStationToList on the same list was past its ownership check, and that
\* call has ended.
C4_Witness ==
    \E c, d \in Sessions :
        /\ sess[c].pc = "done" /\ sess[c].op = "deleteStationList"
        /\ sess[c].result = Bool(TRUE)
        /\ hist.cascaded
        /\ sess[d].pc = "done" /\ sess[d].op = "addStationToList"
        /\ sess[d].listId = sess[c].listId
        /\ sess[d].userId = sess[c].userId

\* ------------------------------------------------------------ search cache
\* C5: a search that starts after another search with an equivalent filter
\* (same cache key) has returned the directory's answer, and that ends within
\* the TTL of it, is a cache hit: it makes no directory call and returns the
\* same station array.
C5_SecondSearchIsHit ==
    \A r \in SearchSessions :
        (/\ search[r].pc = "done"
         /\ search[r].prior.at >= 0
         /\ clock - search[r].prior.at < CACHE_EXPIRATION_SECONDS) =>
            /\ search[r].cacheLookup = "hit"
            /\ ~search[r].apiCalled
            /\ search[r].result = StationsResult(search[r].prior.value)

\* C6: when the cache read or the cache write of a search was skipped (client
\* not in a usable status) or raised an error, the search still ends with the
\* directory's answer to the request for its effective filters; it throws only
\* when the directory call itself failed.
C6_CacheFailureIsMiss ==
    \A r \in SearchSessions :
        (/\ search[r].pc = "done"
         /\ \/ search[r].cacheLookup \in {"skipped", "failed"}
            \/ search[r].cacheStore \in {"skipped", "failed"}) =>
            /\ search[r].apiCalled
            /\ search[r].apiUrl =
                 ApiUrl(Num(IF search[r].limit.def THEN search[r].limit.v ELSE 100),
                        Str(IF search[r].name.def THEN search[r].name.v ELSE << >>),
                        Str(IF search[r].tag.def THEN search[r].tag.v ELSE << >>))
            /\ search[r].apiOk => search[r].result = StationsResult(search[r].stationsData)
            /\ ~search[r].apiOk => search[r].result.kind = "error"
                                   /\ search[r].result.type = "directory"

\* C6 witness: both the cache read and the cache write raised an error and the
\* search has returned the directory's non-empty answer.
C6_Witness ==
    \E r \in SearchSessions :
        /\ search[r].pc = "done"
        /\ search[r].cacheLookup = "failed" /\ search[r].cacheStore = "failed"
        /\ search[r].apiOk /\ search[r].stationsData # << >>
        /\ search[r].result = StationsResult(search[r].stationsData)

\* C7: when the directory call of a search fails, the search ends with the
\* directory error: no station list is returned, not even when an expired
\* entry is still held for the key, and the cache write is never attempted.
C7_DirectoryFailureFails ==
    \A r \in SearchSessions :
        (search[r].pc = "done" /\ search[r].apiCalled /\ ~search[r].apiOk) =>
            /\ search[r].result =
                 Err("directory", "Failed to fetch stations from Radio-Browser API.")
            /\ search[r].cacheStore = "none"
            /\ search[r].cacheLookup \in {"miss", "skipped", "failed", "corrupt"}

\* C7 witness: the lookup missed on an expired entry and the directory failed.
C7_Witness ==
    \E r \in SearchSessions :
        /\ search[r].pc = "done" /\ search[r].cacheLookup = "miss"
        /\ search[r].apiCalled /\ ~search[r].apiOk
        /\ redisData[search[r].cacheKey].present
        /\ search[r].result.kind = "error"

\* The filters a call effectively asks for: an omitted name or tag is "", an
\* omitted limit is 100.
Effective(limit, name, tag) ==
    <<IF limit.def THEN limit.v ELSE 100,
      IF name.def THEN name.v ELSE << >>,
      IF tag.def THEN tag.v ELSE << >>>>

\* C8: two searches with the same effective filters build the same cache key,
\* however the optional fields were left out.
C8_SameFiltersSameKey ==
    /\ \A r, q \in SearchSessions :
           (/\ search[r].pc # "idle" /\ search[q].pc # "idle"
            /\ Effective(search[r].limit, search[r].name, search[r].tag)
                 = Effective(search[q].limit, search[q].name, search[q].tag))
           => search[r].cacheKey = search[q].cacheKey
    /\ \A l \in LimitArgs, n \in NameFilterArgs, t \in TagFilterArgs :
           \A r \in SearchSessions :
               (search[r].pc # "idle"
                /\ Effective(l, n, t)
                     = Effective(search[r].limit, search[r].name, search[r].tag))
               => CacheKey(l, n, t) = search[r].cacheKey

\* C8 witness: one search left all three fields out, the other passed
\* limit = 100, name = "" and tag = "", and both hold the same key.
C8_Witness ==
    /\ search["r1"].pc # "idle" /\ search["r2"].pc # "idle"
    /\ ~search["r1"].limit.def /\ ~search["r1"].name.def /\ ~search["r1"].tag.def
    /\ search["r2"].limit = Num(100) /\ search["r2"].name = Str(<< >>)
    /\ search["r2"].tag = Str(<< >>)
    /\ search["r1"].cacheKey = search["r2"].cacheKey

\* C9: a search whose cache lookup was a hit returns the deserialized stored
\* list, makes no call to the directory and attempts no cache write.
C9_HitReturnsStoredList ==
    \A r \in SearchSessions :
        (search[r].pc = "done" /\ search[r].cacheLookup = "hit") =>
            /\ search[r].result.kind = "stations"
            /\ redisData[search[r].cacheKey].present
            /\ redisData[search[r].cacheKey].value = search[r].cachedData
            /\ Stringify(search[r].result.data) = search[r].cachedData
            /\ ~search[r].apiCalled
            /\ search[r].cacheStore = "none"

\* C9 witness: a hit has returned a stored non-empty station array.
C9_Witness ==
    \E r \in SearchSessions :
        /\ search[r].pc = "done" /\ search[r].cacheLookup = "hit"
        /\ search[r].result = StationsResult(<<"{st1}", "{st2}">>)

\* Remove calls that have deleted their row and not returned yet.
FavInFlight(k) ==
    Cardinality({c \in Sessions :
        /\ sess[c].op = "removeFavorite" /\ sess[c].pc = "select"
        /\ sess[c].rowCount > 0 /\ <<sess[c].userId, sess[c].stationId>> = k})

ItemInFlight(k) ==
    Cardinality({c \in Sessions :
        /\ sess[c].op = "removeStationFromList"
        /\ sess[c].pc \in {"detList", "detItems"}
        /\ sess[c].rowCount > 0 /\ <<sess[c].listId, sess[c].stationId>> = k})

\* C10: whatever add and remove calls interleave on a favorite pair or on a
\* list membership, no call fails with a store error unless the store itself
\* was unavailable, and the row deletions are accounted for one to one: each
\* deletion belongs to a remove call that returns removed = true, to one that
\* is still running, or to one that lost its read-back to a store outage.
\* Of two removes of a favorite that race on its single row (both started
\* before either executed its DELETE) and both return, exactly one reports
\* success.
C10_ConcurrentAddRemove ==
    /\ \A c \in Sessions :
           (sess[c].pc = "done" /\ IsStoreError(sess[c].result)) => sess[c].outage
    /\ \A k \in Users \X Stations :
           /\ hist.favRemovedTrue[k] + FavInFlight(k) + hist.favLost[k]
                 = hist.favDeleted[k]
    /\ \A k \in ListIds \X Stations :
           /\ hist.itemRemovedTrue[k] + ItemInFlight(k) + hist.itemLost[k]
                 = hist.itemDeleted[k]
    /\ \A c, d \in Sessions :
           (/\ c # d
            /\ sess[c].pc = "done" /\ sess[d].pc = "done"
            /\ sess[c].op = "removeFavorite" /\ sess[d].op = "removeFavorite"
            /\ sess[c].userId = sess[d].userId /\ sess[c].stationId = sess[d].stationId
            /\ sess[c].result.kind = "favRemoval" /\ sess[d].result.kind = "favRemoval"
            /\ sess[c].raced /\ sess[d].raced)
           => sess[c].result.success # sess[d].result.success

\* C10 witness: two removes of a favorite that was present once raced on its
\* row and both have returned: the first reports success, the second does not.
C10_Witness ==
    /\ sess["c1"].pc = "done" /\ sess["c1"].op = "removeFavorite"
    /\ sess["c2"].pc = "done" /\ sess["c2"].op = "removeFavorite"
    /\ sess["c1"].userId = sess["c2"].userId
    /\ sess["c1"].stationId = sess["c2"].stationId
    /\ sess["c1"].raced /\ sess["c2"].raced
    /\ sess["c1"].result.kind = "favRemoval" /\ sess["c1"].result.success
    /\ sess["c2"].result.kind = "favRemoval" /\ ~sess["c2"].result.success

\* ------------------------------------------------------- calls run in a row
\* The call of session c directly follows a call of the same operation with
\* the same user and station that returned a value of the given kind.
Repeats(c, op, kind) ==
    /\ sess[c].op = op /\ sess[c].prev.op = op
    /\ sess[c].prev.userId = sess[c].userId
    /\ sess[c].prev.stationId = sess[c].stationId
    /\ sess[c].prev.kind = kind

\* C11: an add(userId, stationUuid) that directly follows a successful add of
\* the same pair leaves the favorites as the first add left them, returns a
\* list that holds stationUuid exactly once, and raises no error (unless the
\* store rejects a query of it).
C11_AddTwiceIsAddOnce ==
    \A c \in Sessions :
        (sess[c].pc = "done" /\ Repeats(c, "addFavorite", "uuids")) =>
            /\ user_favorites = sess[c].pre.favorites
            /\ user_favorites[<<sess[c].userId, sess[c].stationId>>] = 1
            /\ sess[c].result.kind = "error" => sess[c].outage
            /\ sess[c].result.kind # "error" =>
                   /\ sess[c].result.kind = "uuids"
                   /\ sess[c].result.stationIds[sess[c].stationId] = 1
                   /\ sess[c].result.stationIds
                        = SelectFavorites(sess[c].pre.favorites, sess[c].userId)

\* C11 witness: the second add of a pair has returned the list.
C11_Witness ==
    /\ sess["c1"].pc = "done" /\ Repeats("c1", "addFavorite", "uuids")
    /\ sess["c1"].result.kind = "uuids"
    /\ sess["c1"].result.stationIds[sess["c1"].stationId] = 1

\* The list row that the call of session c found under its user at its start.
OwnedAtStart(c) ==
    {r \in sess[c].pre.lists :
        r.list_id = sess[c].listId /\ r.user_id = sess[c].userId}

\* C12: a remove of a favorite that is not stored, and a removeStation of a
\* station that is not in a list the caller owns, return removed = false with
\* the set as it was, leave the tables unchanged, and raise no store error
\* (unless the store rejects a query).
C12_RemoveAbsent ==
    \A c \in Sessions :
        LET s == sess[c] IN
        /\ (/\ s.pc = "done" /\ s.op = "removeFavorite" /\ s.stationId # ""
            /\ s.pre.favorites[<<s.userId, s.stationId>>] = 0) =>
               /\ user_favorites = s.pre.favorites
               /\ s.result.kind = "error" => s.outage
               /\ s.result.kind # "error" =>
                      s.result = FavRemoval(SelectFavorites(s.pre.favorites, s.userId),
                                            FALSE)
        /\ (/\ s.pc = "done" /\ s.op = "removeStationFromList" /\ s.stationId # ""
            /\ OwnedAtStart(c) # {}
            /\ s.pre.items[<<s.listId, s.stationId>>] = 0) =>
               /\ station_list_items = s.pre.items
               /\ user_station_lists = s.pre.lists
               /\ s.result.kind = "error" => s.outage
               /\ s.result.kind # "error" =>
                      s.result =
                        ListRemoval(Resolved(CHOOSE r \in OwnedAtStart(c) : TRUE,
                                             SelectItems(s.pre.items, s.listId)),
                                    FALSE)

\* C12 witness: after a remove of an absent favorite returned, a removeStation
\* of an absent station has returned the caller's list with removed = false.
C12_Witness ==
    /\ sess["c1"].pc = "done" /\ sess["c1"].op = "removeStationFromList"
    /\ sess["c1"].stationId # "" /\ OwnedAtStart("c1") # {}
    /\ sess["c1"].pre.items[<<sess["c1"].listId, sess["c1"].stationId>>] = 0
    /\ sess["c1"].result.kind = "listRemoval" /\ ~sess["c1"].result.removed
    /\ sess["c1"].result.list # Null
    /\ sess["c1"].prev.op = "removeFavorite" /\ sess["c1"].prev.kind = "favRemoval"
    /\ sess["c1"].pre.favorites[<<sess["c1"].prev.userId, sess["c1"].prev.stationId>>] = 0
    /\ hist.favDeleted[<<sess["c1"].prev.userId, sess["c1"].prev.stationId>>] = 0

\* The operations that write to a list given by its id.
ListWrites == {"updateStationListName", "deleteStationList",
               "addStationToList", "removeStationFromList"}

\* C13: a step of a rename, delete, addStation or removeStation call whose
\* caller does not own the target list changes no row of the lists table and
\* no row of the membership table.
C13_NonOwnerChangesNothing ==
    [][\A c \in Sessions :
          (/\ sess[c].op \in ListWrites
           /\ sess[c].pc \notin {"idle", "done"}
           /\ sess'[c] # sess[c]
           /\ SelectListOwned(user_station_lists, sess[c].listId, sess[c].userId) = {})
          => UNCHANGED <<user_station_lists, station_list_items>>]_vars

\* C13 witness: a delete and a removeStation aimed at another user's list,
\* which holds a station, have returned and the list is still there.
C13_Witness ==
    /\ sess["c1"].pc = "done" /\ sess["c1"].foreign
    /\ sess["c1"].op = "deleteStationList" /\ sess["c1"].result = Bool(FALSE)
    /\ sess["c2"].pc = "done" /\ sess["c2"].foreign
    /\ sess["c2"].op = "removeStationFromList" /\ sess["c2"].listId = sess["c1"].listId
    /\ sess["c2"].result.kind = "listRemoval"
    /\ station_list_items[<<sess["c1"].listId, sess["c2"].stationId>>] = 1
    /\ \E r \in user_station_lists : r.list_id = sess["c1"].listId

\* No other handler has served a call: the call of session c ran alone.
RanAlone(c) == \A d \in Sessions \ {c} : sess[d].pc = "idle"

C15_RemovePresent ==
    \A c \in Sessions :
        LET s == sess[c]
            k == <<s.userId, s.stationId>> IN
        (/\ s.pc = "done" /\ s.op = "removeFavorite" /\ s.stationId # ""
         /\ s.pre.favorites[k] = 1) =>
            /\ \A k2 \in (Users \X Stations) \ {k} :
                   user_favorites[k2] = s.pre.favorites[k2]
            /\ s.result.kind = "error" => s.outage
            /\ s.result.kind # "error" =>
                   /\ s.result.kind = "favRemoval"
                   /\ s.result.success
                   /\ s.result.updatedFavorites =
                        [SelectFavorites(s.pre.favorites, s.userId)
                            EXCEPT ![s.stationId] = 0]
                   /\ user_favorites[k] = 0

\* C15 witness: a stored favorite was removed, the call returned true and the
\* returned list still holds the user's other favorite.
C15_Witness ==
    /\ sess["c1"].pc = "done" /\ sess["c1"].op = "removeFavorite"
    /\ sess["c1"].stationId # ""
    /\ sess["c1"].pre.favorites[<<sess["c1"].userId, sess["c1"].stationId>>] = 1
    /\ sess["c1"].result.kind = "favRemoval" /\ sess["c1"].result.success
    /\ \E st \in Stations \ {sess["c1"].stationId} :
           sess["c1"].result.updatedFavorites[st] = 1

\* The operations that issue queries to the relational store.
StoreOps == {"getFavorites", "addFavorite", "removeFavorite"} \cup ListOps
              \cup {"createStationList", "getUserStationLists"}

\* C16: a request whose token does not verify is answered 401 and runs no
\* favorites or list operation, and every operation that runs does so under
\* the user id the verifier produced from the request's token.
C16_VerifiedIdentityOnly ==
    \A c \in Sessions :
        LET s == sess[c] IN
        /\ (s.request.router # "none" /\ ~verifyToken(s.request.token).ok) =>
               /\ s.op \notin StoreOps
               /\ s.pc = "done" /\ s.result = Response(401)
        /\ s.op \in StoreOps =>
               /\ verifyToken(s.request.token).ok
               /\ s.userId = verifyToken(s.request.token).user

\* C17: when a favorites or list operation ends in an error (validation or
\* store), the tables are as the call found them.
C17_FailedCallHasNoEffect ==
    \A c \in Sessions :
        (sess[c].pc = "done" /\ sess[c].op \in StoreOps
         /\ sess[c].result.kind = "error") =>
            /\ user_favorites = sess[c].pre.favorites
            /\ user_station_lists = sess[c].pre.lists
            /\ station_list_items = sess[c].pre.items

\* A name made of whitespace only (or of nothing).
Blank(n) == \A i \in 1..Len(n) : n[i] = " "

\* C18: every stored list name is non-empty and neither starts nor ends with
\* whitespace, and a create or rename whose name is blank ends in a validation
\* error.
C18_NamesAreTrimmed ==
    /\ \A r \in user_station_lists :
           /\ r.list_name # << >>
           /\ r.list_name[1] # " "
           /\ r.list_name[Len(r.list_name)] # " "
    /\ \A c \in Sessions :
           (/\ sess[c].pc = "done"
            /\ sess[c].op \in {"createStationList", "updateStationListName"}
            /\ Blank(sess[c].name)) => IsValidationError(sess[c].result)

\* C18 witness: a rename given " b " has stored and returned "b", and a create
\* given " " has ended in the validation error.
C18_Witness ==
    /\ sess["c1"].pc = "done" /\ sess["c1"].op = "updateStationListName"
    /\ sess["c1"].name = <<" ", "b", " ">>
    /\ sess["c1"].result.kind = "list" /\ sess["c1"].result.name = <<"b">>
    /\ \E r \in user_station_lists : r.list_name = <<"b">>
    /\ sess["c2"].pc = "done" /\ sess["c2"].op = "createStationList"
    /\ sess["c2"].name = <<" ">> /\ IsValidationError(sess["c2"].result)

\* A list row without its name.
Unnamed(r) == [list_id |-> r.list_id, user_id |-> r.user_id,
               created_at |-> r.created_at]

\* C19: no step changes the owner or the creation time of a list that stays
\* in the store, and a step of a rename call changes nothing but the name of
\* the row with the given id: the ids, owners and creation times of all rows,
\* every other row's name and all membership rows are as before.
C19_RenameChangesOnlyName ==
    [][/\ \A r \in user_station_lists : \A r2 \in user_station_lists' :
              r2.list_id = r.list_id => Unnamed(r2) = Unnamed(r)
       /\ \A c \in Sessions :
              (sess[c].op = "updateStationListName" /\ sess[c].pc = "update"
               /\ sess'[c] # sess[c]) =>
                  /\ station_list_items' = station_list_items
                  /\ {Unnamed(r) : r \in user_station_lists'}
                       = {Unnamed(r) : r \in user_station_lists}
                  /\ \A r \in user_station_lists :
                         r.list_id # sess[c].listId => r \in user_station_lists'
                  /\ \A r \in user_station_lists' :
                         r.list_id = sess[c].listId =>
                            \/ r \in user_station_lists
                            \/ r.user_id = sess[c].userId]_vars

\* C19 witness: a rename of the caller's list, which holds a station, has
\* returned the list under its new name with the station still in it.
C19_Witness ==
    \E c \in Sessions :
        /\ sess[c].pc = "done" /\ sess[c].op = "updateStationListName"
        /\ sess[c].result.kind = "list"
        /\ \E r \in sess[c].pre.lists :
               /\ r.list_id = sess[c].result.id
               /\ r.list_name # sess[c].result.name
               /\ r.created_at = sess[c].result.createdAt
        /\ \E st \in Stations : sess[c].result.stationIds[st] = 1

\* The call of session c was given invalid input: an empty station id, or a
\* name that is blank.
InvalidInput(c) ==
    \/ /\ sess[c].op \in {"addFavorite", "removeFavorite", "addStationToList",
                          "removeStationFromList"}
       /\ sess[c].stationId = ""
    \/ /\ sess[c].op \in {"createStationList", "updateStationListName"}
       /\ Blank(sess[c].name)

\* C20: a call given invalid input is over at its entry, before any query: it
\* is never found at a query step, it ends in a validation error, and the
\* tables are as it found them.
C20_InvalidInputFailsFirst ==
    \A c \in Sessions :
        InvalidInput(c) =>
            /\ sess[c].pc = "done"
            /\ IsValidationError(sess[c].result)
            /\ ~sess[c].outage
            /\ user_favorites = sess[c].pre.favorites
            /\ user_station_lists = sess[c].pre.lists
            /\ station_list_items = sess[c].pre.items

\* C20 witness: an addStation with an empty station id has ended in the
\* validation error, right after a create with a blank name did.
C20_Witness ==
    /\ sess["c1"].pc = "done" /\ sess["c1"].op = "addStationToList"
    /\ sess["c1"].stationId = "" /\ IsValidationError(sess["c1"].result)
    /\ sess["c1"].prev.op = "createStationList" /\ sess["c1"].prev.kind = "error"
    /\ user_station_lists = sess["c1"].pre.lists
    /\ station_list_items = sess["c1"].pre.items

\* The list rows that the call of session c found under its user at its start.
OwnedListsAtStart(c) == {r \in sess[c].pre.lists : r.user_id = sess[c].userId}

\* C21: a getUserStationLists(userId) call that returns, run with no other call
\* beside it, returns one entry for each list userId owns and no other entry,
\* each entry with the member stations of its list, the entries in descending
\* order of creation time; it returns the empty array when userId owns no
\* list. It fails only when the store rejects a query.
C21_ListAllOwnedNewestFirst ==
    \A c \in Sessions :
        LET s == sess[c]
            owned == OwnedListsAtStart(c) IN
        (s.pc = "done" /\ s.op = "getUserStationLists") =>
            /\ s.result.kind = "error" => s.outage
            /\ s.result.kind # "error" =>
                   /\ s.result.kind = "lists"
                   /\ Len(s.result.lists) = Cardinality(owned)
                   /\ {s.result.lists[i] : i \in 1..Len(s.result.lists)}
                        = {Resolved(r, SelectItems(s.pre.items, r.list_id)) : r \in owned}
                   /\ \A i \in 1..(Len(s.result.lists) - 1) :
                          s.result.lists[i].createdAt >= s.result.lists[i + 1].createdAt
                   /\ owned = {} => s.result = Lists(<< >>)

\* C21 witness: the caller owns two lists created at different times, the
\* older one holding a station; the call has returned the newer one first.
C21_Witness ==
    /\ sess["c1"].pc = "done" /\ sess["c1"].op = "getUserStationLists"
    /\ sess["c1"].result.kind = "lists" /\ Len(sess["c1"].result.lists) = 2
    /\ sess["c1"].result.lists[1].createdAt > sess["c1"].result.lists[2].createdAt
    /\ \E st \in Stations : sess["c1"].result.lists[2].stationIds[st] = 1

\* C22: a DELETE of a favorite that is not among the caller's favorites is
\* answered 404, with a body that carries the caller's current favorites.
C22_NotFoundCarriesCurrentSet ==
    \A c \in Sessions :
        LET s == sess[c] IN
        (/\ s.op = "removeFavorite" /\ s.request.response # NoResult
         /\ s.result.kind = "favRemoval" /\ ~s.result.success) =>
            /\ s.request.response.status = 404
            /\ "favorites" \in DOMAIN s.request.response.body
            /\ s.request.response.body.favorites = s.result.updatedFavorites

\* C23: with one caller issuing its calls one after the other, a
\* getFavorites(userId) that returns contains every station s whose latest
\* favorites statement was the INSERT of an add(userId, s) that has returned
\* successfully, and excludes every s whose latest statement was the DELETE
\* of a remove(userId, s) that has returned.
C23_ReadYourWrites ==
    \A c \in Sessions :
        (/\ sess[c].pc = "done" /\ sess[c].op = "getFavorites"
         /\ sess[c].result.kind = "uuids") =>
            \A s \in Stations :
                LET last == hist.favLast[<<sess[c].userId, s>>] IN
                /\ last = "added" => sess[c].result.stationIds[s] = 1
                /\ last = "removed" => sess[c].result.stationIds[s] = 0

\* C23 witness: a remove of a stored favorite has returned and the
\* getFavorites that follows has returned a list without the station.
C23_Witness ==
    /\ sess["c1"].pc = "done" /\ sess["c1"].op = "getFavorites"
    /\ sess["c1"].result.kind = "uuids"
    /\ sess["c1"].prev.op = "removeFavorite" /\ sess["c1"].prev.kind = "favRemoval"
    /\ sess["c1"].prev.userId = sess["c1"].userId
    /\ hist.favLast[<<sess["c1"].userId, sess["c1"].prev.stationId>>] = "removed"
    /\ hist.favDeleted[<<sess["c1"].userId, sess["c1"].prev.stationId>>] = 1
    /\ sess["c1"].result.stationIds[sess["c1"].prev.stationId] = 0

\* C24: an entry written by a search expires 3600 seconds after it was
\* stored. No search returns an entry that is 3600 seconds old or older, and a
\* search whose cache read finds the key's entry expired is a miss: it calls
\* the directory, and when its cache write goes through, the key holds the
\* directory's answer under a new expiry.
C24_EntryExpiresAfterTtl ==
    /\ \A k \in CacheKeys :
           redisData[k].present => redisData[k].expiresAt = redisData[k].storedAt + 3600
    /\ \A r \in SearchSessions :
           LET s == search[r]
               age == s.lookupAt - s.entryStoredAt IN
           /\ s.cacheLookup = "hit" => (s.entryStoredAt >= 0 /\ age < 3600)
           /\ (s.cacheLookup \in {"hit", "miss", "corrupt"}
               /\ s.entryStoredAt >= 0 /\ age >= 3600) =>
                  /\ s.cacheLookup = "miss"
                  /\ s.pc = "done" => s.apiCalled
                  /\ (s.pc = "done" /\ s.apiOk) => s.cacheStore # "none"
                  /\ (s.pc = "done" /\ s.cacheStore = "stored") =>
                         /\ redisData[s.cacheKey].present
                         /\ redisData[s.cacheKey].storedAt >= s.lookupAt
                         /\ redisData[s.cacheKey].value = Stringify(s.result.data)

\* C24 witness: a search found the entry of its key 3600 seconds old, missed,
\* called the directory and stored the answer anew.
C24_Witness ==
    \E r \in SearchSessions :
        /\ search[r].pc = "done" /\ search[r].cacheLookup = "miss"
        /\ search[r].entryStoredAt >= 0
        /\ search[r].lookupAt - search[r].entryStoredAt >= 3600
        /\ search[r].apiCalled /\ search[r].cacheStore = "stored"
        /\ redisData[search[r].cacheKey].storedAt = search[r].lookupAt
        /\ redisData[search[r].cacheKey].value # << >>

\* C25 (as claimed): in every interleaving, the list an add(userId, s) returns
\* holds s and the list a successful remove(userId, s) returns does not.
C25_ReturnedListShowsOwnWrite ==
    \A c \in Sessions :
        LET s == sess[c] IN
        /\ (s.pc = "done" /\ s.op = "addFavorite" /\ s.result.kind = "uuids") =>
               s.result.stationIds[s.stationId] >= 1
        /\ (s.pc = "done" /\ s.op = "removeFavorite"
            /\ s.result.kind = "favRemoval" /\ s.result.success) =>
               s.result.updatedFavorites[s.stationId] = 0

\* C25 (amended): the list an add(userId, s) returns holds s unless another
\* session's remove deleted the row of (userId, s) between the INSERT and the
\* read-back of the add; the list a remove(userId, s) returns does not hold s
\* unless another session's add inserted the row between the DELETE and the
\* read-back of the remove. Calls on the user's other stations do not matter.
C25_ReturnedListShowsOwnWriteUnlessCrossed ==
    \A c \in Sessions :
        LET s == sess[c] IN
        /\ (/\ s.pc = "done" /\ s.op = "addFavorite" /\ s.result.kind = "uuids"
            /\ ~s.crossed) =>
               s.result.stationIds[s.stationId] = 1
        /\ (/\ s.pc = "done" /\ s.op = "removeFavorite"
            /\ s.result.kind = "favRemoval" /\ ~s.crossed) =>
               s.result.updatedFavorites[s.stationId] = 0

\* C25 witness: an add of s2 and a remove of s1 for the same user, each started
\* before the other's statement, have both returned: the add's list holds s2
\* and lacks s1, which the user had when the add started.
C25_Witness ==
    \E c, d \in Sessions :
        /\ sess[c].pc = "done" /\ sess[c].op = "addFavorite"
        /\ sess[c].result.kind = "uuids" /\ ~sess[c].crossed
        /\ sess[d].pc = "done" /\ sess[d].op = "removeFavorite"
        /\ sess[d].result.kind = "favRemoval" /\ sess[d].result.success
        /\ sess[d].userId = sess[c].userId /\ sess[d].stationId # sess[c].stationId
        /\ sess[c].pre.favorites[<<sess[c].userId, sess[d].stationId>>] = 1
        /\ sess[d].pre.favorites[<<sess[c].userId, sess[c].stationId>>] = 0
        /\ sess[c].result.stationIds[sess[c].stationId] = 1
        /\ sess[c].result.stationIds[sess[d].stationId] = 0

\* C26: when the statement of an add or of a remove was served and the
\* read-back of the user's favorites is rejected, the call returns no list: it
\* fails with the error of the read-back, 'Database error while fetching
\* favorites.', for add and for remove alike.
C26_ReadBackErrorIsReported ==
    \A c \in Sessions :
        (/\ sess[c].pc = "done" /\ sess[c].op \in {"addFavorite", "removeFavorite"}
         /\ sess[c].failedAt = "select") =>
            sess[c].result = Err("store", "Database error while fetching favorites.")

\* C27: two searches whose normalized filters (limit, name or "", tag or "")
\* differ hold different cache keys, and a cache hit returns an entry that was
\* stored by a search for the same normalized filters.
C27_DifferentFiltersDifferentKeys ==
    /\ \A f, g \in Filters \cup DelimiterFilters :
           Normalized(f[1], f[2], f[3]) # Normalized(g[1], g[2], g[3])
               => CacheKey(f[1], f[2], f[3]) # CacheKey(g[1], g[2], g[3])
    /\ \A r \in SearchSessions :
           search[r].cacheLookup = "hit" =>
               search[r].entryStoredFor
                   = Normalized(search[r].limit, search[r].name, search[r].tag)

\* C28 (as claimed): in every interleaving, each list that getStationListDetails
\* or getUserStationLists returns is a list of the user, with its members, as
\* the store held it at some instant between the call and its return.
C28_ReturnedListIsSnapshot ==
    \A c \in Sessions :
        (sess[c].pc = "done" /\ sess[c].op \in ReadOps) => sess[c].consistent

\* C28 (amended): each returned list is a list of the user, with its members,
\* as the store held it at some instant between the call and its return,
\* unless a rename, delete, addStation or removeStation changed that list
\* between the call's read of the list row and its read of the members.
C28_ReturnedListIsSnapshotUnlessTorn ==
    \A c \in Sessions :
        (sess[c].pc = "done" /\ sess[c].op \in ReadOps /\ ~sess[c].torn)
            => sess[c].consistent

\* C28 witness: a getStationListDetails has returned a list with a station in
\* it that was added by another session's addStationToList after the start of
\* the read, and no write fell between its two reads.
C28_Witness ==
    \E c, d \in Sessions :
        /\ sess[c].pc = "done" /\ sess[c].op = "getStationListDetails"
        /\ ~sess[c].torn /\ sess[c].consistent
        /\ sess[c].result.kind = "list"
        /\ sess[d].op = "addStationToList" /\ sess[d].listId = sess[c].listId
        /\ sess[d].stationId # ""
        /\ sess[c].pre.items[<<sess[c].listId, sess[d].stationId>>] = 0
        /\ sess[c].result.stationIds[sess[d].stationId] = 1

\* C29: a search whose cache read returns a text that cannot be deserialized
\* goes on as after a miss: it calls the directory and returns the
\* directory's response, and ends in an error only when the directory call
\* itself fails; the error of the deserialization is never raised.
C29_CorruptEntryIsMiss ==
    \A r \in SearchSessions :
        LET s == search[r] IN
        /\ s.cacheLookup = "corrupt" => s.pc # "idle"
        /\ (s.pc = "done" /\ s.cacheLookup = "corrupt") =>
               /\ s.apiCalled
               /\ s.apiOk => (s.result = StationsResult(s.stationsData)
                              /\ s.cacheStore # "none")
               /\ ~s.apiOk => s.result =
                     Err("directory", "Failed to fetch stations from Radio-Browser API.")
        /\ (s.cacheLookup = "hit") =>
               /\ Parse(s.cachedData).ok
               /\ s.result = StationsResult(Parse(s.cachedData).value)

\* C29 witness: the key held a truncated array; the search has returned the
\* directory's non-empty answer and stored it under the key.
C29_Witness ==
    \E r \in SearchSessions :
        /\ search[r].pc = "done" /\ search[r].cacheLookup = "corrupt"
        /\ search[r].apiCalled /\ search[r].apiOk
        /\ search[r].result = StationsResult(<<"{st1}", "{st2}">>)
        /\ search[r].cacheStore = "stored"
        /\ redisData[search[r].cacheKey].value = Stringify(<<"{st1}", "{st2}">>)

\* C30: whatever register requests interleave, the user store holds at most
\* one user per email, and a request for an email that has a user in the store
\* is answered 409.
C30_OneUserPerEmail ==
    /\ \A i, j \in 1..Len(users) : users[i].email = users[j].email => i = j
    /\ \A g \in RegisterSessions :
           (reg[g].pc = "done" /\ reg[g].found /\ reg[g].response # Response(400))
               => reg[g].response = Response(409)
====
